---------------------------- MODULE Spec2Model ----------------------------
(***************************************************************************)
(* SpeakWithAI: the voice understanding pipeline.                          *)
(*                                                                         *)
(*   server  src/app/api/sanitize/route.ts   rateLimitState, isRateLimited,*)
(*           handleRateLimit, handleSuccessfulRequest, POST, PATCH,        *)
(*           processWithRegex                                              *)
(*   client  src/app/components/VoiceInput.tsx   analyzeVoiceInput,        *)
(*           processVoiceInput, the recognition session (onresult,         *)
(*           onerror, onend, the two effects, toggleListening)             *)
(*                                                                         *)
(* A text is a sequence of tokens: maximal runs of word characters (\w)    *)
(* and single non-word characters.  A regular expression of the source is  *)
(* evaluated over the tokens; \b falls exactly between a word token and a  *)
(* separator token (or an end of the text).                                *)
(* Confidences are in hundredths (0.8 is 80); times are milliseconds.      *)
(***************************************************************************)
EXTENDS Integers, Sequences, FiniteSets, TLC

----------------------------------------------------------------------------
(* Bounds of the model *)

\* requests the route can have in flight at the same time
MaxCalls == 4
\* utterances and probes the page can have in flight at the same time
MaxClientCalls == 1
\* utterances a recognition session can have in flight at the same time
MaxSessionCalls == 2
\* recognition instances that exist at the same time: the one that
\* recognitionRef holds, and earlier ones whose device or timer is still live
MaxInstances == 2
\* Date.now() when the server process starts
StartTime == 50000
\* the server's clock stops advancing after StartTime + MaxElapsed
MaxElapsed == 1001
\* handleRateLimit is not modelled beyond this many consecutive errors
MaxErrors == 4
\* timers of the form that are pending at the same time: those of
\* handleFieldUpdate, and those of the submit case
MaxTimers == 2

----------------------------------------------------------------------------
(* Texts *)

Seps == {" ", ",", ".", "?", "!", "@", "'", "-"}
Stops == {",", ".", "?", "!"}
AddressStops == {".", "?", "!"}

IsWordTok(t) == t \notin Seps

\* String.prototype.toLowerCase on one token of the vocabulary
Lower(t) ==
  CASE t = "Bob" -> "bob"
    [] t = "Submit" -> "submit"
    [] t = "Main" -> "main"
    [] t = "St" -> "st"
    [] t = "Hey" -> "hey"
    [] t = "SEND" -> "send"
    [] OTHER -> t

\* tokens made of two or more letters, [a-zA-Z]{2,}
Letters2 == {"com", "bob", "Bob", "my", "name", "is", "email", "and",
             "submit", "Submit", "send", "done", "finish", "complete",
             "clear", "reset", "hello", "address", "Main", "St", "test",
             "hey", "Hey", "siri", "SEND", "it", "resubmitting", "submitted"}

T_submit  == <<"submit">>
T_Submit  == <<"Submit">>
T_finish  == <<"finish">>
T_clear   == <<"clear">>
T_hello   == <<"hello">>
T_bob     == <<"my", " ", "name", " ", "is", " ", "Bob", " ", "and", " ",
               "my", " ", "email", " ", "is", " ", "bob", "@", "x", ".", "com">>
T_resetAddress == <<"reset", " ", "my", " ", "address", " ", "is", " ",
                    "5", " ", "Main", " ", "St">>
T_test    == <<"test">>
T_sendIt  == <<"SEND", " ", "it">>
T_resubmitting == <<"resubmitting">>
T_submitted == <<"submitted">>
T_emailPhone == <<"bob", "@", "x", ".", "com", " ", "5551234567">>
T_hiCalled == <<"hi", ",", " ", "i", "'", "m", " ", "called", " ",
                "Jane", " ", "Doe">>

\* the final utterances the recognition device emits in this model
Utterances == {T_submit, T_finish, T_clear, T_hello, T_bob, T_resetAddress,
               T_sendIt, T_resubmitting, T_submitted}

SubSeqFrom(s, i) == IF i > Len(s) THEN <<>> ELSE SubSeq(s, i, Len(s))

\* String.prototype.trim on a token sequence
RECURSIVE TrimLeft(_)
TrimLeft(s) == IF s # <<>> /\ Head(s) = " " THEN TrimLeft(Tail(s)) ELSE s
RECURSIVE TrimRight(_)
TrimRight(s) ==
  IF s # <<>> /\ s[Len(s)] = " " THEN TrimRight(SubSeq(s, 1, Len(s) - 1)) ELSE s
Trim(s) == TrimRight(TrimLeft(s))

\* .replace(/\s+/g, ' '): every run of spaces becomes one space
RECURSIVE CollapseSpaces(_)
CollapseSpaces(s) ==
  IF Len(s) < 2 THEN s
  ELSE IF s[1] = " " /\ s[2] = " " THEN CollapseSpaces(Tail(s))
  ELSE <<Head(s)>> \o CollapseSpaces(Tail(s))

WakeWords == {"siri", "alexa", "computer"}

\* .replace(/^\s*hey\s+(siri|alexa|computer)\s*/i, ''); no token of the
\* vocabulary begins with a wake word and goes on
StripWake(s) ==
  LET a == TrimLeft(s) IN
  IF Len(a) >= 2 /\ Lower(a[1]) = "hey" /\ a[2] = " "
  THEN LET b == TrimLeft(Tail(a)) IN
       IF b # <<>> /\ Lower(Head(b)) \in WakeWords
       THEN TrimLeft(Tail(b))
       ELSE s
  ELSE s

\* cleanedTranscript of onresult, VoiceInput.tsx:324-327
cleanedTranscript(transcript) ==
  Trim(StripWake(CollapseSpaces(Trim(transcript))))

\* /\b(w1|w2|...)\b/i.test(text): some maximal word run is one of the words
WordTest(words, text) == \E i \in 1..Len(text) : Lower(text[i]) \in words

\* the literal lit (lower case tokens) matches text at i, ignoring case
LitAt(text, i, lit) ==
  /\ i + Len(lit) - 1 <= Len(text)
  /\ \A k \in 1..Len(lit) : Lower(text[i + k - 1]) = lit[k]

\* \b before position i, where a word character is to match
BoundaryAt(text, i) ==
  /\ i \in 1..Len(text)
  /\ IsWordTok(text[i])
  /\ (i = 1 \/ ~IsWordTok(text[i - 1]))

\* the longest run of tokens of text from i on that are not in stops
RECURSIVE RunUntil(_, _, _)
RunUntil(text, i, stops) ==
  IF i > Len(text) \/ text[i] \in stops THEN <<>>
  ELSE <<text[i]>> \o RunUntil(text, i + 1, stops)

\* first index from i on that is not white space (Len + 1 if none)
RECURSIVE SkipSpace(_, _)
SkipSpace(text, i) ==
  IF i <= Len(text) /\ text[i] = " " THEN SkipSpace(text, i + 1) ELSE i

\* /\b(?:a1|a2|...)\s+([^stops]+)/i at position i with alternative lit:
\* the capture, or <<>> when there is no match there.  \s+ is greedy and gives
\* back one space when nothing else is left for the capture.
CaptureAt(text, i, lit, stops) ==
  LET j == i + Len(lit)
      k == SkipSpace(text, j)
  IN IF ~(BoundaryAt(text, i) /\ LitAt(text, i, lit) /\ k > j) THEN <<>>
     ELSE IF RunUntil(text, k, stops) # <<>> THEN RunUntil(text, k, stops)
     ELSE IF k - 1 > j THEN <<" ">>
     ELSE <<>>

\* the first alternative (in the order of the source) that matches at i
RECURSIVE FirstAltAt(_, _, _, _)
FirstAltAt(text, i, alts, stops) ==
  IF alts = <<>> THEN <<>>
  ELSE IF CaptureAt(text, i, Head(alts), stops) # <<>>
       THEN CaptureAt(text, i, Head(alts), stops)
       ELSE FirstAltAt(text, i, Tail(alts), stops)

\* text.match(pattern)[1] of the leftmost match, <<>> when match is null
RECURSIVE PrefixCapture(_, _, _, _)
PrefixCapture(text, i, alts, stops) ==
  IF i > Len(text) THEN <<>>
  ELSE IF FirstAltAt(text, i, alts, stops) # <<>>
       THEN FirstAltAt(text, i, alts, stops)
       ELSE PrefixCapture(text, i + 1, alts, stops)


----------------------------------------------------------------------------
(* processWithRegex: the patterns of src/app/api/sanitize/route.ts:373-430 *)

FieldNames == <<"name", "email", "phone", "address">>
FieldSet == {"name", "email", "phone", "address"}

SubmitWords == {"submit", "send", "done", "finish", "complete"}

\* the words that token t holds without being one of them
Parts(t) ==
  CASE t = "resubmitting" -> {"submit"}
    [] t = "submitted" -> {"submit"}
    [] OTHER -> {}

\* faulty variant of submitPattern: the pattern without its two \b
submitPattern_Substring(text) ==
  \E i \in 1..Len(text) :
    Lower(text[i]) \in SubmitWords \/ Parts(Lower(text[i])) \cap SubmitWords # {}

\* /\b(submit|send|done|finish|complete)\b/i.test(text)
submitPattern(text) == WordTest(SubmitWords, text)

NameAlts == << <<"my", " ", "name", " ", "is">>, <<"i", " ", "am">>,
               <<"i", "'", "m">>, <<"call", " ", "me">>,
               <<"name", " ", "is">>, <<"the", " ", "name", " ", "is">>,
               <<"name">>, <<"this", " ", "is">> >>

AddressAlts == << <<"my", " ", "address", " ", "is">>, <<"address", " ", "is">>,
                  <<"the", " ", "address", " ", "is">>, <<"my", " ", "address">>,
                  <<"address">>, <<"i", " ", "live", " ", "at">>,
                  <<"i", "'", "m", " ", "at">>, <<"i", " ", "am", " ", "at">>,
                  <<"location", " ", "is">>,
                  <<"my", " ", "location", " ", "is">> >>

\* nameMatch[1]: <<>> when nameMatch is null
namePattern(text) == PrefixCapture(text, 1, NameAlts, Stops)

\* addressMatch[1]
addressPattern(text) == PrefixCapture(text, 1, AddressAlts, AddressStops)

\* [a-zA-Z0-9._%+-] and [a-zA-Z0-9.-] over the tokens of the vocabulary
InEmailClass(t) == IsWordTok(t) \/ t \in {".", "-"}

RECURSIVE LeftRun(_, _)
LeftRun(text, i) ==
  IF i >= 1 /\ InEmailClass(text[i]) THEN LeftRun(text, i - 1) ELSE i + 1

RECURSIVE RightRun(_, _)
RightRun(text, i) ==
  IF i <= Len(text) /\ InEmailClass(text[i]) THEN RightRun(text, i + 1) ELSE i - 1

Min(S) == CHOOSE x \in S : \A y \in S : x <= y
Max(S) == CHOOSE x \in S : \A y \in S : x >= y

\* the match of emailPattern around the "@" at k, <<>> when there is none
EmailAt(text, k) ==
  LET starts == {i \in LeftRun(text, k - 1)..(k - 1) : IsWordTok(text[i])}
      last == RightRun(text, k + 1)
      dots == {d \in (k + 2)..(last - 1) :
                 text[d] = "." /\ text[d + 1] \in Letters2}
  IN IF starts = {} \/ dots = {} THEN <<>>
     ELSE SubSeq(text, Min(starts), Max(dots) + 1)

\* emailMatch[0] of /\b[a-zA-Z0-9._%+-]+@[a-zA-Z0-9.-]+\.[a-zA-Z]{2,}\b/i
emailPattern(text) ==
  LET ats == {k \in 1..Len(text) : text[k] = "@" /\ EmailAt(text, k) # <<>>}
  IN IF ats = {} THEN <<>> ELSE EmailAt(text, Min(ats))

\* the number of digits of a token made of digits only, 0 for any other token
DigitLen(t) ==
  CASE t = "5" -> 1
    [] t \in {"555", "123"} -> 3
    [] t = "4567" -> 4
    [] t = "5551234567" -> 10
    [] OTHER -> 0

PhoneSeps == {"-", ".", " "}

\* the match of phonePattern that starts at i, <<>> when there is none:
\* \d{3}[-.\s]?\d{3}[-.\s]?\d{4} with both separators, or \d{10}
PhoneAt(text, i) ==
  IF ~BoundaryAt(text, i) THEN <<>>
  ELSE IF /\ i + 4 <= Len(text)
          /\ DigitLen(text[i]) = 3 /\ text[i + 1] \in PhoneSeps
          /\ DigitLen(text[i + 2]) = 3 /\ text[i + 3] \in PhoneSeps
          /\ DigitLen(text[i + 4]) = 4
       THEN SubSeq(text, i, i + 4)
  ELSE IF DigitLen(text[i]) = 10 THEN <<text[i]>>
  ELSE <<>>

\* phoneMatch[0]
phonePattern(text) ==
  LET at == {i \in 1..Len(text) : PhoneAt(text, i) # <<>>}
  IN IF at = {} THEN <<>> ELSE PhoneAt(text, Min(at))

\* a JSON body of the route: submit is "submit.value === true"; fields maps the
\* field names present to { value, confidence }; status 200
Body(submit, submitConf, fields, fromAI) ==
  [status |-> 200, submit |-> submit, submitConf |-> submitConf,
   fields |-> fields, fromAI |-> fromAI]

\* NextResponse.json({ error }, { status })
ErrorBody(status) ==
  [status |-> status, submit |-> FALSE, submitConf |-> 0,
   fields |-> <<>>, fromAI |-> FALSE]

RegexFields(text) ==
  LET found == {f \in FieldSet :
                  \/ f = "name" /\ namePattern(text) # <<>>
                  \/ f = "email" /\ emailPattern(text) # <<>>
                  \/ f = "phone" /\ phonePattern(text) # <<>>
                  \/ f = "address" /\ addressPattern(text) # <<>>}
  IN [f \in found |->
        CASE f = "name" -> [value |-> Trim(namePattern(text)), confidence |-> 80]
          [] f = "email" -> [value |-> emailPattern(text), confidence |-> 90]
          [] f = "phone" -> [value |-> phonePattern(text), confidence |-> 90]
          [] f = "address" ->
               [value |-> Trim(addressPattern(text)), confidence |-> 70]]

processWithRegex(text) ==
  Body(submitPattern(text), IF submitPattern(text) THEN 90 ELSE 0,
       RegexFields(text), FALSE)

----------------------------------------------------------------------------
(* basicTextCleaning, field 'name' (the field of the availability probe).  *)
(* The prefixes are matched token by token: no token of the vocabulary     *)
(* continues the last word of a prefix.                                    *)

NamePrefixes1 == << <<"my", " ", "name", " ", "is">>, <<"i", " ", "am">>,
                    <<"i", "'", "m">>, <<"call", " ", "me">>,
                    <<"name", " ", "is">>, <<"my", " ", "name">>,
                    <<"i", "'", "m", " ", "called">> >>
NamePrefixes2 == << <<"this", " ", "is">>, <<"it", "'", "s">>,
                    <<"it", " ", "is">>, <<"just", " ", "call", " ", "me">> >>

\* text.replace(/^(?:a1|a2|...)\s*/i, '')
RECURSIVE StripPrefix(_, _)
StripPrefix(text, alts) ==
  IF alts = <<>> THEN text
  ELSE IF LitAt(text, 1, Head(alts))
       THEN TrimLeft(SubSeqFrom(text, Len(Head(alts)) + 1))
       ELSE StripPrefix(text, Tail(alts))

basicTextCleaningName(text) ==
  Trim(StripPrefix(StripPrefix(Trim(text), NamePrefixes1), NamePrefixes2))

\* the alternatives of the two replace calls of each case of
\* basicTextCleaning, in the order written
FieldPrefixes(field) ==
  CASE field = "name" -> <<NamePrefixes1, NamePrefixes2>>
    [] field = "email" ->
         << << <<"my", " ", "email", " ", "is">>, <<"email", " ", "is">>,
               <<"my", " ", "email">>, <<"email", " ", "address", " ", "is">>,
               <<"you", " ", "can", " ", "reach", " ", "me", " ", "at">>,
               <<"contact", " ", "me", " ", "at">> >>,
            << <<"send", " ", "mail", " ", "to">>,
               <<"send", " ", "it", " ", "to">>, <<"it", "'", "s">> >> >>
    [] field = "phone" ->
         << << <<"my", " ", "phone", " ", "is">>, <<"phone", " ", "is">>,
               <<"my", " ", "phone", " ", "number", " ", "is">>,
               <<"phone", " ", "number", " ", "is">>,
               <<"call", " ", "me", " ", "at">>,
               <<"reach", " ", "me", " ", "at">> >>,
            << <<"you", " ", "can", " ", "reach", " ", "me", " ", "at">>,
               <<"contact", " ", "me", " ", "on">>,
               <<"my", " ", "number", " ", "is">>, <<"number", " ", "is">> >> >>
    [] field = "address" ->
         << << <<"my", " ", "address", " ", "is">>,
               <<"i", " ", "live", " ", "at">>, <<"address", " ", "is">>,
               <<"location", " ", "is">>, <<"residence", " ", "is">>,
               <<"my", " ", "home", " ", "is">> >>,
            << <<"i", "'", "m", " ", "at">>,
               <<"you", " ", "can", " ", "find", " ", "me", " ", "at">>,
               <<"find", " ", "me", " ", "at">>, <<"i", " ", "stay", " ", "at">>,
               <<"i", "'", "m", " ", "living", " ", "at">> >> >>

\* faulty variant of basicTextCleaning: every case only removes the verbal
\* noise, as the name case does
basicTextCleaning_KeepsAll(text, field) ==
  Trim(StripPrefix(StripPrefix(Trim(text), FieldPrefixes(field)[1]),
                   FieldPrefixes(field)[2]))

\* basicTextCleaning(text, field), route.ts:74-124.  The phone pattern is
\* phonePattern of processWithRegex without its two \b, which hold at both
\* ends of every token of digits.
basicTextCleaning(text, field) ==
  LET t == Trim(text)
      \* the match of /[\w.-]+@[\w.-]+\.\w+/ around the "@" at k
      emailAt(k) ==
        LET first == LeftRun(t, k - 1)
            last == RightRun(t, k + 1)
            dots == {d \in (k + 2)..(last - 1) :
                       t[d] = "." /\ IsWordTok(t[d + 1])}
        IN IF first > k - 1 \/ dots = {} THEN <<>>
           ELSE SubSeq(t, first, Max(dots) + 1)
      ats == {k \in 1..Len(t) : t[k] = "@" /\ emailAt(k) # <<>>}
      emailMatch == IF ats = {} THEN <<>> ELSE emailAt(Min(ats))
      noise == Trim(StripPrefix(StripPrefix(t, FieldPrefixes(field)[1]),
                                FieldPrefixes(field)[2]))
  IN CASE field = "name" -> basicTextCleaningName(text)
       [] field = "email" -> IF emailMatch # <<>> THEN emailMatch ELSE noise
       [] field = "phone" ->
            IF phonePattern(t) # <<>> THEN phonePattern(t)
            ELSE SelectSeq(noise,
                           LAMBDA tok : DigitLen(tok) > 0
                             \/ tok \in {" ", "-", "+", "(", ")", "."})
       [] field = "address" -> noise
       [] OTHER -> t

\* NextResponse.json({ sanitizedText, fromAI }) of POST
PostBody(sanitizedText, fromAI) ==
  [status |-> 200, submit |-> FALSE, submitConf |-> 0,
   fields |-> [f \in {"name"} |-> [value |-> sanitizedText, confidence |-> 0]],
   fromAI |-> fromAI]

----------------------------------------------------------------------------
(* RateLimitState and its three functions, route.ts:7-71 *)

BaseBackoff == 1000
MaxBackoff == 30000

InitRateLimit ==
  [lastRequestTime |-> 0, consecutiveErrors |-> 0,
   backoffMs |-> BaseBackoff, inCooldown |-> FALSE]

\* 20 * jitter for jitter = 0.5 + Math.random(), Math.random() one of
\* 0 and 0.95: the factor 2 * jitter in tenths
JitterFactors == {10, 29}

\* faulty variant of isRateLimitedResult: the cooldown ends one millisecond
\* early (>= for >)
isRateLimitedResult_AtLeast(st, t) ==
  st.inCooldown /\ ~(t - st.lastRequestTime >= st.backoffMs)

\* what isRateLimited() returns at time t
isRateLimitedResult(st, t) ==
  st.inCooldown /\ ~(t - st.lastRequestTime > st.backoffMs)

\* faulty variant of isRateLimitedState: the end of a cooldown resets the
\* counters too
isRateLimitedState_Resets(st, t) ==
  IF st.inCooldown /\ t - st.lastRequestTime > st.backoffMs
  THEN [st EXCEPT !.inCooldown = FALSE, !.consecutiveErrors = 0,
                  !.backoffMs = BaseBackoff]
  ELSE st

\* the state isRateLimited() leaves at time t
isRateLimitedState(st, t) ==
  IF st.inCooldown /\ t - st.lastRequestTime > st.backoffMs
  THEN [st EXCEPT !.inCooldown = FALSE]
  ELSE st

\* faulty variant of NextBackoff: the factor 2 is left out
NextBackoff_NotDoubled(backoffMs, factor) ==
  IF backoffMs * factor >= MaxBackoff * 20 THEN MaxBackoff
  ELSE (backoffMs * factor) \div 20

\* faulty variant of NextBackoff: the Math.min(30000, ...) is left out
NextBackoff_Uncapped(backoffMs, factor) == (backoffMs * factor) \div 10

\* Math.min(30000, backoffMs * 2 * jitter), factor = 20 * jitter
NextBackoff(backoffMs, factor) ==
  IF backoffMs * factor >= MaxBackoff * 10 THEN MaxBackoff
  ELSE (backoffMs * factor) \div 10

\* faulty variant of handleRateLimit: inCooldown is not set
handleRateLimit_NoCooldown(st, t, factor) ==
  [lastRequestTime |-> t,
   consecutiveErrors |-> st.consecutiveErrors + 1,
   backoffMs |-> NextBackoff(st.backoffMs, factor),
   inCooldown |-> st.inCooldown]

handleRateLimit(st, t, factor) ==
  [lastRequestTime |-> t,
   consecutiveErrors |-> st.consecutiveErrors + 1,
   backoffMs |-> NextBackoff(st.backoffMs, factor),
   inCooldown |-> TRUE]

\* faulty variant of handleSuccessfulRequest: backoffMs is not reset
handleSuccessfulRequest_KeepsBackoff(st, t) ==
  [st EXCEPT !.consecutiveErrors = 0, !.lastRequestTime = t]

handleSuccessfulRequest(st, t) ==
  IF st.consecutiveErrors > 0
  THEN [st EXCEPT !.consecutiveErrors = 0, !.backoffMs = BaseBackoff,
                  !.lastRequestTime = t]
  ELSE [st EXCEPT !.lastRequestTime = t]

----------------------------------------------------------------------------
(* The client's local intent check, VoiceInput.tsx:108-141 *)

Understanding(intent, detectedFields, originalText) ==
  [intent |-> intent, detectedFields |-> detectedFields,
   originalText |-> originalText]

BasicSubmitWords == {"submit", "send", "done"}
ClearWords == {"clear", "reset"}

\* faulty variant of analyzeVoiceInput: the submit check is left out
analyzeVoiceInput_NoSubmit(text) ==
  IF WordTest(ClearWords, Trim(text)) THEN Understanding("clear", <<>>, text)
  ELSE Understanding("unknown", <<>>, text)

\* faulty variant of analyzeVoiceInput: the clear check is left out
analyzeVoiceInput_NoClear(text) ==
  IF WordTest(BasicSubmitWords, Trim(text)) THEN Understanding("submit", <<>>, text)
  ELSE Understanding("unknown", <<>>, text)

analyzeVoiceInput(text) ==
  IF WordTest(BasicSubmitWords, Trim(text)) THEN Understanding("submit", <<>>, text)
  ELSE IF WordTest(ClearWords, Trim(text)) THEN Understanding("clear", <<>>, text)
  ELSE Understanding("unknown", <<>>, text)

----------------------------------------------------------------------------
(* State *)

VARIABLES
  now,             \* Date.now()
  rateLimitState,  \* route.ts: the module-level rateLimitState
  apiKey,          \* route.ts: whether process.env.GOOGLE_AI_API_KEY is set
  useAI,           \* page: the useAI state handed to VoiceInput
  apiStatus,       \* page: 'checking' | 'available' | 'unavailable' | 'rate_limited'
  wasApiUnavailable, \* page: localStorage 'wasApiUnavailable' is 'true'
  useAIOffBy,      \* history: what has switched useAI off, while it is off:
                   \* "user" (the checkbox) or "outage" (the effect on
                   \* apiStatus); "none" while useAI is on
  processing,      \* VoiceInput: the processing state
  rateLimitHit,    \* VoiceInput: the rateLimitHit state
  calls,           \* the requests in flight: one utterance or one probe each
  out,             \* what the last step handed out: a response of the route,
                   \* or the calls of onVoiceInput of a processVoiceInput
  listening,       \* page: the listening state handed to VoiceInput
  error,           \* VoiceInput: the error state (the message shown)
  instances,       \* the SpeechRecognition instances the init effect made
  ref,             \* VoiceInput: recognitionRef.current
  pending,         \* the processVoiceInput calls awaiting their fetch, in
                   \* the order of their utterances
  sev,             \* what the last step of the session was
  form             \* page: the form, its inputs, its timers, localStorage

vars == <<now, rateLimitState, apiKey, useAI, apiStatus, wasApiUnavailable,
          useAIOffBy,
          processing, rateLimitHit, calls, out,
          listening, error, instances, ref, pending, sev, form>>

serverVars == <<now, rateLimitState, apiKey>>
pageVars == <<useAI, apiStatus, wasApiUnavailable, useAIOffBy, processing,
              rateLimitHit>>
sessionVars == <<listening, error, instances, ref, pending, sev>>

CallIds == 1..MaxCalls
ClientCallIds == 1..MaxClientCalls
SessionCallIds == 1..MaxSessionCalls
InstanceIds == 1..MaxInstances

NoResponse == [status |-> 0, submit |-> FALSE, submitConf |-> 0,
               fields |-> <<>>, fromAI |-> FALSE]

\* kind: "free", "utterance" (processVoiceInput and its PATCH request) or
\*       "probe" (checkApiStatus and its POST request)
\* ai: the useAI that the processVoiceInput of the utterance closed over
\* cpc: the caller: "fetching" (awaiting fetch), "gone" (its fetch has failed
\*      or was aborted, the request is still on its way or in the route) or
\*      "none" (the caller is not modelled)
\* spc: the route handler: "none" (not entered), "remote" (awaiting the
\*      generative-language fetch) or "replied"
\* limited: what isRateLimited() returned in the handler ("unset" if not called)
\* outcome: how the remote fetch ended ("none" if not issued or pending)
\* resp: the handler's response
\* field: the field of a POST request
FreeCall ==
  [kind |-> "free", text |-> <<>>, field |-> "name", ai |-> FALSE,
   cpc |-> "none",
   spc |-> "none", limited |-> "unset", outcome |-> "none",
   resp |-> NoResponse]

\* ev: "none"; "ignored": processVoiceInput returned at once, the text of c
\*     being blank; "reply": the route returned c.resp to request c; "return":
\*     processVoiceInput returned for utterance c after the calls `delivered`
\*     of onVoiceInput, its fetch having given `response`: "ok" (an ok
\*     response whose body was read), "failed" (null, a response that is not
\*     ok, or a body that cannot be read) or "none" (no fetch)
Event(ev, c, response, delivered) ==
  [ev |-> ev, c |-> c, response |-> response, delivered |-> delivered]

NoEvent == Event("none", FreeCall, "none", <<>>)

\* made: the slot holds an instance
\* lis, ai: the listening and the useAI of the render whose init effect made
\*      the instance: its handlers, and the processVoiceInput they call,
\*      closed over them
\* dev: the device: "idle" (not started, or ended), "running", "stopping"
\*      (stop() was called, onend is to come) or "erred" (onerror was
\*      dispatched, onend is to come)
\* timer: the 100 ms timer of onend is pending
NoInstance ==
  [made |-> FALSE, lis |-> FALSE, ai |-> FALSE, dev |-> "idle",
   timer |-> FALSE]

\* new SpeechRecognitionAPI() with its handlers, VoiceInput.tsx:290-382
NewInstance(lis, ai) ==
  [made |-> TRUE, lis |-> lis, ai |-> ai, dev |-> "idle", timer |-> FALSE]

\* an event of the device or a callback of the instance can still come
Live(x) == x.made /\ (x.dev # "idle" \/ x.timer)

\* ev: "none"; "toggle" (toggleListening), "render" (the page rendered),
\*     "result" (onresult), "error" (onerror), "end" (onend), "timer" (the
\*     callback of the timer of onend)
\* inst: the instance of the handler
\* arg: "toggle": "ignored", "start", "stop"; "error": event.error;
\*      "end": "restart" or "rest"; "timer": "started", "threw" or "rest"
\* event: "result": the results of the event, from resultIndex on
\* handed: "result": the texts handed to processVoiceInput
SessionEvent(ev, inst, arg, event, handed) ==
  [ev |-> ev, inst |-> inst, arg |-> arg, event |-> event, handed |-> handed]

NoSessionEvent == SessionEvent("none", 0, "", <<>>, <<>>)

\* data: formData; dom: the values of the four inputs; focus: the pending
\* timers of handleFieldUpdate, in the order they were set; active:
\* activeField; stored: localStorage 'formData',
\* <<>> or <<the record>>; navs: the pending timers of the submit case;
\* route: "form" or "confirmation"; error: the message shown by the page;
\* fev: the last step of the form ("none", "input", an intent, "focus",
\* "navigate"); applied: the detectedFields that step was given
FreshForm ==
  [data |-> [f \in FieldSet |-> <<>>], dom |-> [f \in FieldSet |-> <<>>],
   focus |-> <<>>, active |-> "none", stored |-> <<>>,
   navs |-> 0, route |-> "form", error |-> "", fev |-> "none",
   applied |-> <<>>]

Init ==
  /\ now = StartTime
  /\ rateLimitState = InitRateLimit
  /\ apiKey \in BOOLEAN
  /\ useAI = TRUE
  /\ apiStatus = "checking"
  /\ wasApiUnavailable \in BOOLEAN
  /\ useAIOffBy = "none"
  /\ processing = FALSE
  /\ rateLimitHit = FALSE
  /\ calls = [i \in CallIds |-> FreeCall]
  /\ out = NoEvent
  /\ listening = FALSE
  /\ error = ""
  /\ instances = [i \in InstanceIds |->
                    IF i = 1 THEN NewInstance(FALSE, TRUE) ELSE NoInstance]
  /\ ref = 1
  /\ pending = <<>>
  /\ sev = NoSessionEvent
  /\ form = FreshForm

----------------------------------------------------------------------------
(* The generative-language backend's answers to a successful PATCH fetch:  *)
(* the text of candidates[0].content.parts[0], after JSON.parse            *)

BobValue == <<"Bob">>

\* the value that reading .value of an entry without one gives (undefined):
\* a token that no text holds
Undefined == <<"undefined">>

\* the last answer is JSON whose name entry is the bare string "Bob", not an
\* object { value, confidence }: its .value and .confidence are undefined
AIReplies ==
  { [kind |-> "none", submit |-> FALSE, fields |-> <<>>],
    [kind |-> "notjson", submit |-> FALSE, fields |-> <<>>],
    [kind |-> "json", submit |-> FALSE, fields |-> <<>>],
    [kind |-> "json", submit |-> TRUE, fields |-> <<>>],
    [kind |-> "json", submit |-> FALSE,
     fields |-> [f \in {"name"} |-> [value |-> BobValue, confidence |-> 95]]],
    [kind |-> "json", submit |-> FALSE,
     fields |-> [f \in {"name"} |-> [value |-> Undefined, confidence |-> 0]]] }

----------------------------------------------------------------------------
(* The clock *)

CooldownEnd == rateLimitState.lastRequestTime + rateLimitState.backoffMs

\* time passes while a cooldown is set: up to the end of the backoff window,
\* or one millisecond past it
Tick ==
  /\ rateLimitState.inCooldown
  /\ \E t \in {CooldownEnd, CooldownEnd + 1} :
       /\ t > now
       /\ t <= StartTime + MaxElapsed
       /\ now' = t
  /\ out' = NoEvent
  /\ sev' = NoSessionEvent
  /\ UNCHANGED <<rateLimitState, apiKey, calls>>
  /\ UNCHANGED pageVars
  /\ UNCHANGED <<listening, error, instances, ref, pending, form>>

----------------------------------------------------------------------------
(* The route handlers, route.ts:126-370.  A handler runs without            *)
(* interruption up to its await of the generative-language fetch, and from  *)
(* the fetch's end to its return (the await of the body of a successful     *)
(* fetch comes after handleSuccessfulRequest and reads no shared state).    *)

\* a step of the route is no step of the session
ServerUnchanged ==
  /\ UNCHANGED <<now, apiKey>>
  /\ UNCHANGED pageVars
  /\ UNCHANGED <<listening, error, instances, ref, pending, form>>
  /\ sev' = NoSessionEvent

\* the fallback body of the handler of request c
Fallback(c) ==
  IF c.kind = "probe" THEN PostBody(basicTextCleaning(c.text, c.field), FALSE)
  ELSE processWithRegex(c.text)

\* the handler of request c, in slot id, returns resp: the response waits
\* for a caller that is still fetching
Reply(id, c, resp) ==
  /\ out' = Event("reply", [c EXCEPT !.spc = "replied", !.resp = resp],
                  "none", <<>>)
  /\ calls' = [calls EXCEPT ![id] =
                 IF c.cpc = "fetching"
                 THEN [c EXCEPT !.spc = "replied", !.resp = resp]
                 ELSE FreeCall]

\* the rate-limit gate and what follows it (route.ts:144-150, 265-270): the
\* fallback while rate limited, else the remote fetch is issued
Gate(id, c) ==
  IF apiKey
  THEN /\ rateLimitState' = isRateLimitedState(rateLimitState, now)
       /\ IF isRateLimitedResult(rateLimitState, now)
          THEN Reply(id, [c EXCEPT !.limited = "yes"], Fallback(c))
          ELSE /\ calls' = [calls EXCEPT ![id] =
                              [c EXCEPT !.spc = "remote", !.limited = "no"]]
               /\ out' = NoEvent
  ELSE /\ Reply(id, c, Fallback(c))
       /\ UNCHANGED rateLimitState

\* faulty variant of PatchEnter: the submit shortcut comes after the call of
\* isRateLimited()
PatchEnter_ChecksLimit(id, c) ==
  IF c.text = <<>>
  THEN Reply(id, c, ErrorBody(400)) /\ UNCHANGED rateLimitState
  ELSE IF submitPattern(c.text)
  THEN /\ Reply(id, [c EXCEPT !.limited =
                       IF isRateLimitedResult(rateLimitState, now)
                       THEN "yes" ELSE "no"],
                Body(TRUE, 95, <<>>, FALSE))
       /\ rateLimitState' = isRateLimitedState(rateLimitState, now)
  ELSE Gate(id, c)

\* PATCH on request c, up to its await of the remote fetch, route.ts:237-317
PatchEnter(id, c) ==
  IF c.text = <<>>
  THEN Reply(id, c, ErrorBody(400)) /\ UNCHANGED rateLimitState
  ELSE IF submitPattern(c.text)
  THEN Reply(id, c, Body(TRUE, 95, <<>>, FALSE)) /\ UNCHANGED rateLimitState
  ELSE Gate(id, c)

\* POST on request c, up to its await of the remote fetch, route.ts:126-185
PostEnter(id, c) ==
  IF c.text = <<>>
  THEN Reply(id, c, ErrorBody(400)) /\ UNCHANGED rateLimitState
  ELSE Gate(id, c)

\* the page's PATCH request reaches the route
PatchStart(id) ==
  /\ calls[id].kind = "utterance" /\ calls[id].spc = "none"
  /\ PatchEnter(id, calls[id])
  /\ ServerUnchanged

\* the page's POST request reaches the route
PostStart(id) ==
  /\ calls[id].kind = "probe" /\ calls[id].spc = "none"
  /\ PostEnter(id, calls[id])
  /\ ServerUnchanged

\* the remote fetch answers 429: route.ts:188-194, 320-325
Remote429(id) ==
  LET c == calls[id] IN
  /\ c.spc = "remote"
  /\ rateLimitState.consecutiveErrors < MaxErrors
  /\ \E factor \in JitterFactors :
       rateLimitState' = handleRateLimit(rateLimitState, now, factor)
  /\ Reply(id, [c EXCEPT !.outcome = "429"], Fallback(c))
  /\ ServerUnchanged

\* faulty variant of AfterRemoteError: every failed attempt counts as a 429
AfterRemoteError_CountsFailure(st, t) ==
  [st EXCEPT !.consecutiveErrors = @ + 1, !.lastRequestTime = t,
             !.inCooldown = TRUE]

\* faulty variant of AfterRemoteError: every attempt that is no 429 counts as
\* a success
AfterRemoteError_CountsSuccess(st, t) == handleSuccessfulRequest(st, t)

\* what the handler does to rateLimitState when the remote fetch answers
\* another non-success status or throws: route.ts:195, 218-223, 326, 357-361
AfterRemoteError(st, t) == st

\* the remote fetch answers another non-success status, or throws (transport
\* error, timeout of the connection)
RemoteError(id) ==
  LET c == calls[id] IN
  /\ c.spc = "remote"
  /\ \E o \in {"status", "throw"} :
       Reply(id, [c EXCEPT !.outcome = o], Fallback(c))
  /\ rateLimitState' = AfterRemoteError(rateLimitState, now)
  /\ ServerUnchanged

\* faulty variant of PatchAnswer: an answer that cannot be parsed is an error
\* of the request
PatchAnswer_Strict(c, ai) ==
  IF ai.kind = "json"
  THEN Body(ai.submit, IF ai.submit THEN 95 ELSE 0, ai.fields, TRUE)
  ELSE ErrorBody(500)

\* the body the PATCH handler returns for the backend's answer ai,
\* route.ts:332-356
PatchAnswer(c, ai) ==
  IF ai.kind = "json"
  THEN Body(ai.submit, IF ai.submit THEN 95 ELSE 0, ai.fields, TRUE)
  ELSE processWithRegex(c.text)

\* the body the POST handler returns for the backend's text, route.ts:201-217
PostAnswer(c, sanitized) ==
  IF sanitized # <<>> THEN PostBody(sanitized, TRUE) ELSE Fallback(c)

\* the remote fetch answers with a success status: route.ts:198-217, 329-356
RemoteOk(id) ==
  LET c == calls[id] IN
  /\ c.spc = "remote"
  /\ rateLimitState' = handleSuccessfulRequest(rateLimitState, now)
  /\ IF c.kind = "probe"
     THEN \E sanitized \in {<<>>, <<"Test">>} :
            Reply(id, [c EXCEPT !.outcome = "ok"], PostAnswer(c, sanitized))
     ELSE \E ai \in AIReplies :
            Reply(id, [c EXCEPT !.outcome = "ok"], PatchAnswer(c, ai))
  /\ ServerUnchanged

\* the requests that reach the route where the page is not modelled
ServerTexts == {T_hello, T_submit}

Request(kind, text) ==
  [FreeCall EXCEPT !.kind = kind, !.text = text, !.ai = TRUE]

\* slot id is the first free slot
FirstFree(id) ==
  /\ calls[id].kind = "free"
  /\ \A j \in 1..(id - 1) : calls[j].kind # "free"

\* a PATCH request of some page reaches the route
PatchArrives(id) ==
  /\ FirstFree(id)
  /\ \E text \in ServerTexts : PatchEnter(id, Request("utterance", text))
  /\ ServerUnchanged

\* a POST request (the probe) of some page reaches the route
PostArrives(id) ==
  /\ FirstFree(id)
  /\ PostEnter(id, Request("probe", T_test))
  /\ ServerUnchanged

\* a POST request of some client reaches the route while no other request
\* is in it: any of the four fields, with a text
PostCleans(id) ==
  /\ \A j \in CallIds : calls[j].kind = "free"
  /\ id = 1
  /\ \E field \in FieldSet :
       \E text \in {T_test, T_hello, <<" ", "hello", " ">>, T_bob,
                    T_emailPhone, T_hiCalled, SubSeqFrom(T_hiCalled, 4)} :
         PostEnter(id, [Request("probe", text) EXCEPT !.field = field])
  /\ ServerUnchanged

----------------------------------------------------------------------------
(* The renders of VoiceInput and its two effects *)

\* instance.stop()
Stopped(x) == [x EXCEPT !.dev = IF @ = "running" THEN "stopping" ELSE @]

\* the first slot that holds no instance
FreeInstance(insts) ==
  CHOOSE i \in InstanceIds :
    ~insts[i].made /\ \A j \in 1..(i - 1) : insts[j].made

\* the init effect runs again, VoiceInput.tsx:274-403 (its dependencies are
\* listening, setListening and processVoiceInput, which is made anew whenever
\* useAI or onVoiceInput changes; the page hands a new handleVoiceInput as
\* onVoiceInput with each of its renders): the cleanup stops the instance of
\* the last run, a new instance is made whose handlers close over lis and
\* ai, and recognitionRef holds it.  st is [instances, ref]
InitEffect(st, lis, ai) ==
  LET old == Stopped(st.instances[st.ref])
      r == IF Live(old) THEN FreeInstance(st.instances) ELSE st.ref
  IN [instances |-> [st.instances EXCEPT ![st.ref] = old,
                                         ![r] = NewInstance(lis, ai)],
      ref |-> r]

\* the init effect can run: a slot is left for the new instance
CanRender(st) ==
  Live(Stopped(st.instances[st.ref])) =>
    \E i \in InstanceIds : ~st.instances[i].made

\* the effect on listening, VoiceInput.tsx:406-417, where start() and stop()
\* do not throw
ListeningEffect(st, lis) ==
  [st EXCEPT !.instances[st.ref] =
     IF lis THEN [@ EXCEPT !.dev = "running"] ELSE Stopped(@)]

\* the instances that can still act: one that is not in recognitionRef, is
\* not running and has no timer pending is never heard of again
Collect(st) ==
  [i \in InstanceIds |->
     IF i # st.ref /\ ~Live(st.instances[i]) THEN NoInstance
     ELSE st.instances[i]]

Current == [instances |-> instances, ref |-> ref]

\* the page renders with listening unchanged; ai is its useAI
PageRender(ai) ==
  /\ CanRender(Current)
  /\ LET st == InitEffect(Current, listening, ai) IN
       /\ instances' = Collect(st)
       /\ ref' = st.ref

----------------------------------------------------------------------------
(* processVoiceInput, VoiceInput.tsx:144-271 *)

\* a step of VoiceInput or of the probe: the Understandings it hands to the
\* page are kept in out, and the form is followed in SpecForm
ClientUnchanged == UNCHANGED serverVars /\ UNCHANGED form

\* data[fieldName].confidence || 0.8
ConfidenceOr80(c) == IF c = 0 THEN 80 ELSE c

\* the DetectedField of field f of the response data
DetectedField(data, f) ==
  [field |-> f, value |-> data.fields[f].value,
   confidence |-> ConfidenceOr80(data.fields[f].confidence)]

\* aiUnderstanding.detectedFields: the fields of data, in the order
\* name, email, phone, address (VoiceInput.tsx:213-221)
RECURSIVE DetectedFields(_, _)
DetectedFields(data, names) ==
  IF names = <<>> THEN <<>>
  ELSE (IF Head(names) \in DOMAIN data.fields
        THEN <<DetectedField(data, Head(names))>> ELSE <<>>)
       \o DetectedFields(data, Tail(names))

\* the Understanding handed to onVoiceInput for the parsed response data,
\* VoiceInput.tsx:191-249
Classify(text, data) ==
  IF data.submit THEN Understanding("submit", <<>>, text)
  ELSE IF DetectedFields(data, FieldNames) # <<>>
       THEN Understanding("provide_info", DetectedFields(data, FieldNames), text)
  ELSE analyzeVoiceInput(text)

\* faulty variant of LocalDelivery: the regex extractor classifies the
\* utterance on the client
LocalDelivery_Regex(text) == <<Classify(text, processWithRegex(text))>>

\* the calls of onVoiceInput when useAI is off or the fetch gave no ok
\* response, VoiceInput.tsx:256-258
LocalDelivery(text) == <<analyzeVoiceInput(text)>>

\* faulty variant of ResponseDelivery: the return after the call of
\* onVoiceInput is missing, and line 258 is reached too
ResponseDelivery_Twice(text, data) ==
  <<Classify(text, data), analyzeVoiceInput(text)>>

\* the calls of onVoiceInput for the parsed response data: one call and a
\* return on each path, VoiceInput.tsx:191-249
ResponseDelivery(text, data) == <<Classify(text, data)>>

\* faulty variant of AttemptsAI: useAI is not consulted
AttemptsAI_Always(ai) == TRUE

\* whether processVoiceInput attempts the PATCH request, VoiceInput.tsx:160
AttemptsAI(ai) == ai

\* the context of an utterance processed with useAI = ai
Utterance(text, ai) ==
  [FreeCall EXCEPT !.kind = "utterance", !.text = text, !.ai = ai]

\* a processVoiceInput that awaits its fetch: slot id of calls; stopped: the
\* user has stopped the session since the call began
Pending(id) == [id |-> id, stopped |-> FALSE]

\* pending without the call of slot id
Settled(id) == SelectSeq(pending, LAMBDA p : p.id # id)

\* faulty variant of Deliver: the setProcessing(false) is left out
Deliver_StaysProcessing(c, response, us) ==
  /\ out' = Event("return", c, response, us)
  /\ processing' = processing
  /\ \/ PageRender(useAI)
     \/ UNCHANGED <<instances, ref>>

\* the calls us of onVoiceInput (handleVoiceInput, page lines 129-231: the
\* page renders, unless the Understanding changes nothing of its state), then
\* setProcessing(false) and the return
Deliver(c, response, us) ==
  /\ out' = Event("return", c, response, us)
  /\ processing' = FALSE
  /\ \/ PageRender(useAI)
     \/ UNCHANGED <<instances, ref>>

\* faulty variant of IsBlank: the test of text.trim() is left out
IsBlank_EmptyOnly(text) == text = <<>>

\* !text || typeof text !== 'string' || text.trim() === '' (a text of the
\* model is a string)
IsBlank(text) == Trim(text) = <<>>

\* the texts processVoiceInput takes for nothing
BlankTexts == {<<>>, <<" ">>}

\* processVoiceInput(text) of a render whose useAI is ai, up to its await of
\* fetch or, without fetch, to its return; ids are the slots it may take.
\* A blank text is ignored (lines 145-148).  With useAI the PATCH request is
\* sent (lines 160-176), else the local intent is delivered (258).
processVoiceInput(text, ai, ids) ==
  IF IsBlank(text)
  THEN /\ out' = Event("ignored", Utterance(text, ai), "none", <<>>)
       /\ UNCHANGED <<calls, pending, processing, rateLimitHit,
                      instances, ref>>
  ELSE /\ IF AttemptsAI(ai)
          THEN /\ \E id \in ids :
                    /\ FirstFree(id)
                    /\ calls' = [calls EXCEPT ![id] =
                         [Utterance(text, ai) EXCEPT !.cpc = "fetching"]]
                    /\ pending' = Append(pending, Pending(id))
               /\ processing' = TRUE
               /\ out' = NoEvent
               /\ UNCHANGED <<instances, ref>>
          ELSE /\ Deliver(Utterance(text, ai), "none", LocalDelivery(text))
               /\ UNCHANGED <<calls, pending>>
       /\ rateLimitHit' = FALSE

\* processVoiceInput is called with a text: a final utterance, or a blank
ProcessVoiceInput ==
  /\ \E text \in Utterances \cup BlankTexts :
       processVoiceInput(text, useAI, ClientCallIds)
  /\ sev' = NoSessionEvent
  /\ UNCHANGED <<useAI, apiStatus, wasApiUnavailable, useAIOffBy, listening,
                 error>>
  /\ ClientUnchanged

\* the fetch resolves with the handler's response, VoiceInput.tsx:178-258;
\* reading the body (response.json()) may fail
FetchResolves(id) ==
  LET c == calls[id] IN
  /\ c.kind = "utterance" /\ c.cpc = "fetching" /\ c.spc = "replied"
  /\ IF c.resp.status = 200
     THEN \E readable \in BOOLEAN :
            IF readable
            THEN /\ rateLimitHit' = (rateLimitHit \/ ~c.resp.fromAI)
                 /\ Deliver(c, "ok", ResponseDelivery(c.text, c.resp))
            ELSE /\ Deliver(c, "failed", LocalDelivery(c.text))
                 /\ UNCHANGED rateLimitHit
     ELSE /\ Deliver(c, "failed", LocalDelivery(c.text))
          /\ UNCHANGED rateLimitHit
  /\ calls' = [calls EXCEPT ![id] = FreeCall]
  /\ pending' = Settled(id)
  /\ sev' = NoSessionEvent
  /\ UNCHANGED <<useAI, apiStatus, wasApiUnavailable, useAIOffBy, listening,
                 error>>
  /\ ClientUnchanged

\* what becomes of request c when its caller stops waiting for it: a request
\* that has been answered is over; one in the route goes on; one that has not
\* reached the route still reaches it, or never does
Abandoned(c) ==
  IF c.spc = "replied" THEN {FreeCall}
  ELSE IF c.spc = "remote" THEN {[c EXCEPT !.cpc = "gone"]}
  ELSE {[c EXCEPT !.cpc = "gone"], FreeCall}

\* the fetch fails (aborted after 5000 ms, network error): lines 173-176,
\* 181, 256-258
FetchFails(id) ==
  LET c == calls[id] IN
  /\ c.kind = "utterance" /\ c.cpc = "fetching"
  /\ Deliver(c, "failed", LocalDelivery(c.text))
  /\ \E a \in Abandoned(c) : calls' = [calls EXCEPT ![id] = a]
  /\ pending' = Settled(id)
  /\ sev' = NoSessionEvent
  /\ UNCHANGED <<rateLimitHit, useAI, apiStatus, wasApiUnavailable, useAIOffBy,
                 listening, error>>
  /\ ClientUnchanged

----------------------------------------------------------------------------
(* The page: the availability probe and the useAI toggle *)

\* setApiStatus(s) and the effect on apiStatus, page lines 111-127; the
\* page renders when its state has changed
SetApiStatus(s) ==
  /\ apiStatus' = s
  /\ useAI' = IF s = "unavailable" THEN FALSE
              ELSE IF s = "available" /\ wasApiUnavailable THEN TRUE
              ELSE useAI
  /\ wasApiUnavailable' = IF s = "unavailable" THEN TRUE
                          ELSE IF s = "available" THEN FALSE
                          ELSE wasApiUnavailable
  /\ useAIOffBy' = IF useAI' THEN "none"
                   ELSE IF useAI THEN "outage"
                   ELSE useAIOffBy
  /\ IF apiStatus' # apiStatus \/ useAI' # useAI
     THEN PageRender(useAI')
     ELSE UNCHANGED <<instances, ref>>

\* checkApiStatus up to its await of fetch (page lines 58-78): on mount and
\* on every tick of the 60 s interval
CheckApiStatus(id) ==
  /\ FirstFree(id)
  /\ \A j \in CallIds : ~(calls[j].kind = "probe" /\ calls[j].cpc = "fetching")
  /\ apiStatus' = "checking"
  /\ IF apiStatus # "checking"
     THEN PageRender(useAI)
     ELSE UNCHANGED <<instances, ref>>
  /\ calls' = [calls EXCEPT ![id] =
       [FreeCall EXCEPT !.kind = "probe", !.text = T_test,
                        !.cpc = "fetching"]]
  /\ out' = NoEvent
  /\ sev' = NoSessionEvent
  /\ UNCHANGED <<useAI, wasApiUnavailable, useAIOffBy, processing,
                 rateLimitHit>>
  /\ UNCHANGED <<listening, error, pending>>
  /\ ClientUnchanged

\* checkApiStatus from the fetch's end (page lines 80-99)
ProbeResolves(id) ==
  LET c == calls[id] IN
  /\ c.kind = "probe" /\ c.cpc = "fetching" /\ c.spc = "replied"
  /\ IF c.resp.status = 200
     THEN SetApiStatus(IF c.resp.fromAI THEN "available" ELSE "rate_limited")
     ELSE SetApiStatus("unavailable")
  /\ calls' = [calls EXCEPT ![id] = FreeCall]
  /\ out' = NoEvent
  /\ sev' = NoSessionEvent
  /\ UNCHANGED <<processing, rateLimitHit>>
  /\ UNCHANGED <<listening, error, pending>>
  /\ ClientUnchanged

\* the probe's fetch fails (aborted after 3000 ms, network error) or its
\* body cannot be read
ProbeFails(id) ==
  LET c == calls[id] IN
  /\ c.kind = "probe" /\ c.cpc = "fetching"
  /\ SetApiStatus("unavailable")
  /\ \E a \in Abandoned(c) : calls' = [calls EXCEPT ![id] = a]
  /\ out' = NoEvent
  /\ sev' = NoSessionEvent
  /\ UNCHANGED <<processing, rateLimitHit>>
  /\ UNCHANGED <<listening, error, pending>>
  /\ ClientUnchanged

\* the checkbox's onChange (page line 369); the checkbox is disabled while
\* the status is 'unavailable' (line 371)
ToggleAI ==
  /\ apiStatus # "unavailable"
  /\ useAI' = (IF apiStatus # "unavailable" THEN ~useAI ELSE FALSE)
  /\ PageRender(useAI')
  /\ out' = NoEvent
  /\ sev' = NoSessionEvent
  /\ useAIOffBy' = IF useAI' THEN "none" ELSE "user"
  /\ UNCHANGED <<apiStatus, wasApiUnavailable, processing, rateLimitHit, calls>>
  /\ UNCHANGED <<listening, error, pending>>
  /\ ClientUnchanged

----------------------------------------------------------------------------
(* The page's form: handleVoiceInput and what it calls, page lines 129-350. *)
(* formErrors and lastSpeech are not followed.                              *)

\* faulty variant of submissionData: the values are not trimmed
submissionData_Untrimmed(dom) == dom

\* the record the submit case builds from the values of the inputs
submissionData(dom) == [f \in FieldSet |-> Trim(dom[f])]

\* case 'submit', with localStorage.setItem succeeding (ok) or throwing
SubmitCase(fm, ok) ==
  IF \A f \in FieldSet : submissionData(fm.dom)[f] = <<>>
  THEN [fm EXCEPT
          !.error = "Please provide some information before submitting."]
  ELSE IF ok
  THEN [fm EXCEPT !.stored = <<submissionData(fm.dom)>>, !.navs = @ + 1]
  ELSE [fm EXCEPT !.error = "Failed to submit the form. Please try again."]

handleClearForm(fm) ==
  [fm EXCEPT !.data = [f \in FieldSet |-> <<>>], !.active = "none",
             !.error = "Form has been cleared. You can start over."]

\* handleFieldUpdate(field, value) with its timer of 100 ms;
\* checkFormProgress reads formData, the data of the render that made the
\* handler
handleFieldUpdate(fm, field, value, formData) ==
  [fm EXCEPT !.data[field] = value,
             !.active = field,
             !.focus = Append(@, [field |-> field, value |-> value]),
             !.error = IF \E f \in FieldSet : formData[f] # <<>>
                       THEN "Say \"submit\" when you're ready to submit the form."
                       ELSE @]

\* detectedFields.forEach: the fields whose value is truthy are updated
RECURSIVE ApplyFields(_, _, _)
ApplyFields(fm, fields, formData) ==
  IF fields = <<>> THEN fm
  ELSE ApplyFields(
         IF Head(fields).value \notin {<<>>, Undefined}
         THEN handleFieldUpdate(fm, Head(fields).field, Head(fields).value,
                                formData)
         ELSE fm,
         Tail(fields), formData)

\* faulty variant of highestConfidenceField: of the fields of highest
\* confidence the last is taken
highestConfidenceField_Last(fields) ==
  LET k == CHOOSE k \in 1..Len(fields) :
             /\ \A j \in 1..Len(fields) :
                  fields[j].confidence <= fields[k].confidence
             /\ \A j \in (k + 1)..Len(fields) :
                  fields[j].confidence < fields[k].confidence
  IN fields[k].field

\* [...detectedFields].sort((a, b) => b.confidence - a.confidence)[0].field:
\* the sort is stable, so the first of the fields of highest confidence
highestConfidenceField(fields) ==
  LET k == CHOOSE k \in 1..Len(fields) :
             /\ \A j \in 1..Len(fields) :
                  fields[j].confidence <= fields[k].confidence
             /\ \A j \in 1..(k - 1) :
                  fields[j].confidence < fields[k].confidence
  IN fields[k].field

\* handleVoiceInput(understanding) on the form fm, up to its return
handleVoiceInput(fm, understanding, ok) ==
  LET cleared == [fm EXCEPT !.error = ""]
      fields == understanding.detectedFields
  IN CASE understanding.intent = "submit" -> SubmitCase(cleared, ok)
       [] understanding.intent = "clear" -> handleClearForm(cleared)
       [] understanding.intent = "provide_info" ->
            IF fields = <<>>
            THEN [cleared EXCEPT !.error =
                    "No specific fields were detected in your speech."]
            ELSE [ApplyFields(cleared, fields, fm.data) EXCEPT
                    !.active = highestConfidenceField(fields)]
       [] OTHER -> [cleared EXCEPT !.error = "I didn't understand that."]

\* the page renders: each input takes its value of formData (lines 420-458)
Rendered(fm) == [fm EXCEPT !.dom = fm.data]

\* the Understandings handed to the page in SpecForm: those of the local
\* check, of processWithRegex and of the backend's answers
FormUnderstandings ==
  {analyzeVoiceInput(t) : t \in {T_submit, T_clear, T_hello}}
    \cup {Classify(t, processWithRegex(t)) : t \in {T_bob, T_emailPhone}}
    \cup {Classify(T_hello, PatchAnswer(Utterance(T_hello, TRUE), ai)) :
            ai \in AIReplies}

\* what the user types, and the inputs the user types into
FormValues == {<<>>, <<" ">>, <<" ", "Bob", " ">>}
TypedFields == {"name"}

\* a step of the form is no step of VoiceInput or of the route
FormUnchanged ==
  /\ out' = NoEvent
  /\ sev' = NoSessionEvent
  /\ UNCHANGED <<listening, error, pending, calls>>
  /\ UNCHANGED pageVars
  /\ UNCHANGED serverVars

\* onVoiceInput(understanding): handleVoiceInput, and the render that follows
\* it when the state of the page has changed (lastSpeech may have)
HandleVoiceInput(understanding) ==
  /\ form.route = "form"
  /\ understanding.intent = "submit" => form.navs < MaxTimers
  /\ Len(form.focus) + Len(understanding.detectedFields) <= MaxTimers
  /\ \E ok \in BOOLEAN, renders \in BOOLEAN :
       LET fm == [handleVoiceInput(form, understanding, ok) EXCEPT
                    !.fev = understanding.intent,
                    !.applied = understanding.detectedFields]
       IN /\ ( \/ fm.data # form.data \/ fm.error # form.error
                \/ fm.active # form.active ) => renders
          /\ form' = IF renders THEN Rendered(fm) ELSE fm
          /\ IF renders THEN PageRender(useAI)
             ELSE UNCHANGED <<instances, ref>>
  /\ FormUnchanged

\* handleInputChange: the user types value into input field
InputChange(field, value) ==
  /\ form.route = "form"
  /\ value # form.dom[field]
  /\ form' = Rendered([form EXCEPT !.data[field] = value, !.fev = "input",
                                   !.applied = <<>>])
  /\ PageRender(useAI)
  /\ FormUnchanged

\* the callback of the oldest timer of handleFieldUpdate (lines 259-266)
FocusTimerFires ==
  /\ form.focus # <<>>
  /\ form' = IF form.route = "form"
             THEN [form EXCEPT !.focus = Tail(@),
                               !.dom[Head(form.focus).field] =
                                  Head(form.focus).value,
                               !.fev = "focus", !.applied = <<>>]
             ELSE [form EXCEPT !.focus = Tail(@), !.fev = "focus",
                               !.applied = <<>>]
  /\ UNCHANGED <<instances, ref>>
  /\ FormUnchanged

\* the callback of a timer of the submit case: router.push('/confirmation')
NavigationTimerFires ==
  /\ form.navs > 0
  /\ form' = [form EXCEPT !.navs = @ - 1, !.route = "confirmation",
                          !.fev = "navigate", !.applied = <<>>]
  /\ UNCHANGED <<instances, ref>>
  /\ FormUnchanged

----------------------------------------------------------------------------
(* The recognition session, VoiceInput.tsx:274-441 *)

Final(t) == [transcript |-> t, isFinal |-> TRUE]
Interim(t) == [transcript |-> t, isFinal |-> FALSE]

T_heySubmit == <<"Hey", " ", " ", "siri", " ", "submit">>
T_heySiri == <<"hey", " ", "siri">>
T_spaced == <<" ", "hello", " ">>

\* the results that an event of the device carries, from event.resultIndex
\* on: the code reads the last of event.results, which is the last of these
DeviceEvents ==
  { <<>>,
    <<Interim(<<>>)>>,
    <<Interim(T_hello)>>,
    <<Final(T_spaced)>>,
    <<Final(T_heySubmit)>>,
    <<Final(T_heySiri)>>,
    <<Final(T_submit), Final(T_hello)>>,
    <<Final(T_hello), Interim(T_submit)>> }

\* the texts that onresult hands to processVoiceInput for the event,
\* VoiceInput.tsx:299-335
onresultHanded(results) ==
  IF results = <<>> THEN <<>>
  ELSE LET currentResult == results[Len(results)] IN
       IF currentResult.transcript = <<>> THEN <<>>
       ELSE IF /\ currentResult.isFinal
               /\ cleanedTranscript(currentResult.transcript) # <<>>
            THEN <<cleanedTranscript(currentResult.transcript)>>
            ELSE <<>>

\* onresult of instance i
OnResult(i) ==
  /\ instances[i].made /\ instances[i].dev \in {"running", "stopping"}
  /\ \E results \in DeviceEvents :
       LET handed == onresultHanded(results) IN
       /\ sev' = SessionEvent("result", i, "", results, handed)
       /\ IF handed = <<>>
          THEN /\ out' = NoEvent
               /\ UNCHANGED <<calls, pending, processing, rateLimitHit,
                              instances, ref>>
          ELSE processVoiceInput(handed[1], instances[i].ai, SessionCallIds)
  /\ UNCHANGED <<useAI, apiStatus, wasApiUnavailable, useAIOffBy, listening,
                 error>>
  /\ ClientUnchanged

ErrorKinds ==
  {"not-allowed", "no-speech", "network", "aborted", "audio-capture"}

\* the error state after onerror, VoiceInput.tsx:346-357
onerrorMessage(kind, prev) ==
  CASE kind = "not-allowed" -> "Microphone access denied"
    [] kind = "no-speech" -> "No speech detected"
    [] kind = "network" -> "Network error"
    [] kind = "aborted" -> prev
    [] OTHER -> "Error"

\* faulty variant of onerrorListening: only not-allowed ends the session
onerrorListening_Terminal(kind, lis) ==
  IF kind = "not-allowed" THEN FALSE ELSE lis

\* listening after onerror, VoiceInput.tsx:359-361
onerrorListening(kind, lis) == IF kind # "aborted" THEN FALSE ELSE lis

\* onerror of instance i; the device ends after an error.  When listening
\* changes, the page renders and both effects run.
OnError(i) ==
  /\ instances[i].made /\ instances[i].dev = "running"
  /\ \E kind \in ErrorKinds :
       LET st0 == [instances |-> [instances EXCEPT ![i].dev = "erred"],
                   ref |-> ref]
           lis == onerrorListening(kind, listening)
       IN /\ error' = onerrorMessage(kind, error)
          /\ listening' = lis
          /\ sev' = SessionEvent("error", i, kind, <<>>, <<>>)
          /\ IF lis # listening
             THEN /\ CanRender(st0)
                  /\ LET st == ListeningEffect(InitEffect(st0, lis, useAI), lis)
                     IN instances' = Collect(st) /\ ref' = st.ref
             ELSE instances' = st0.instances /\ UNCHANGED ref
  /\ out' = NoEvent
  /\ UNCHANGED <<useAI, apiStatus, wasApiUnavailable, useAIOffBy, processing,
                 rateLimitHit, calls, pending>>
  /\ ClientUnchanged

\* faulty variant of RestartsOnEnd: onend never restarts
RestartsOnEnd_Never(lis) == FALSE

\* whether onend sets the restart timer, VoiceInput.tsx:368: the listening
\* that the handler closed over
RestartsOnEnd(lis) == lis

\* onend of instance i, VoiceInput.tsx:364-382: the device has ended, of
\* itself, after stop() or after an error
OnEnd(i) ==
  /\ instances[i].made
  /\ instances[i].dev \in {"running", "stopping", "erred"}
  /\ LET x == instances[i]
         st == [instances |->
                  [instances EXCEPT ![i] =
                     [x EXCEPT !.dev = "idle",
                               !.timer = RestartsOnEnd(x.lis)]],
                ref |-> ref]
     IN /\ instances' = Collect(st)
        /\ sev' = SessionEvent("end", i, x.dev, <<>>, <<>>)
  /\ out' = NoEvent
  /\ UNCHANGED <<listening, error, ref, pending, calls>>
  /\ UNCHANGED pageVars
  /\ ClientUnchanged

\* the callback of the timer of onend of instance i, VoiceInput.tsx:372-376:
\* start() is called if the listening of the closure holds; an exception of
\* start() is thrown out of the callback, outside the try of line 370
TimerFires(i) ==
  /\ instances[i].made /\ instances[i].timer
  /\ \E ok \in BOOLEAN :
       LET x == instances[i]
           st == [instances |->
                    [instances EXCEPT ![i] =
                       [x EXCEPT !.timer = FALSE,
                                 !.dev = IF x.lis /\ ok THEN "running" ELSE @]],
                  ref |-> ref]
       IN /\ instances' = Collect(st)
          /\ sev' = SessionEvent("timer", i,
                                 IF ~x.lis THEN "rest"
                                 ELSE IF ok THEN "started" ELSE "threw",
                                 <<>>, <<>>)
  /\ out' = NoEvent
  /\ UNCHANGED <<listening, error, ref, pending, calls>>
  /\ UNCHANGED pageVars
  /\ ClientUnchanged

\* faulty variant of ToggleIgnored: the button works while processing
ToggleIgnored_Never(proc) == FALSE

\* whether toggleListening returns at once, VoiceInput.tsx:436
ToggleIgnored(proc) == proc

\* toggleListening, VoiceInput.tsx:430-441, in a browser with speech
\* recognition; the page renders and both effects run (lines 274-428).  When
\* start() throws in the effect, the error is set and listening is set back
\* to false, and the page renders once more.
ToggleListening ==
  /\ IF ToggleIgnored(processing)
     THEN /\ sev' = SessionEvent("toggle", ref, "ignored", <<>>, <<>>)
          /\ UNCHANGED <<listening, error, instances, ref, pending>>
     ELSE /\ CanRender(Current)
          /\ \E ok \in (IF listening THEN {TRUE} ELSE BOOLEAN) :
               LET st1 == InitEffect(Current, ~listening, useAI)
                   st == IF ok THEN ListeningEffect(st1, ~listening)
                         ELSE InitEffect(st1, FALSE, useAI)
               IN /\ listening' = (~listening /\ ok)
                  /\ error' = (IF ok THEN ""
                               ELSE "Error controlling the microphone")
                  /\ instances' = Collect(st)
                  /\ ref' = st.ref
          /\ sev' = SessionEvent("toggle", ref,
                                 IF listening THEN "stop" ELSE "start",
                                 <<>>, <<>>)
          /\ pending' = IF listening
                        THEN [k \in DOMAIN pending |->
                                [pending[k] EXCEPT !.stopped = TRUE]]
                        ELSE pending
  /\ out' = NoEvent
  /\ UNCHANGED <<calls>>
  /\ UNCHANGED pageVars
  /\ ClientUnchanged

\* the page renders for another reason (handleInputChange, page lines
\* 342-345): the init effect runs again
PageRenders ==
  /\ PageRender(useAI)
  /\ sev' = SessionEvent("render", ref, "", <<>>, <<>>)
  /\ out' = NoEvent
  /\ UNCHANGED <<listening, error, pending, calls>>
  /\ UNCHANGED pageVars
  /\ ClientUnchanged

----------------------------------------------------------------------------
(* Specifications *)

\* the page and the route
Next ==
  \/ Tick
  \/ ToggleAI
  \/ ProcessVoiceInput
  \/ \E id \in ClientCallIds :
       \/ FetchResolves(id)
       \/ FetchFails(id)
       \/ CheckApiStatus(id)
       \/ ProbeResolves(id)
       \/ ProbeFails(id)
       \/ PatchStart(id)
       \/ PostStart(id)
       \/ Remote429(id)
       \/ RemoteError(id)
       \/ RemoteOk(id)

Spec == Init /\ [][Next]_vars

\* the route alone, under the requests of any number of pages
NextServer ==
  \/ Tick
  \/ \E id \in CallIds :
       \/ PatchArrives(id)
       \/ PostArrives(id)
       \/ Remote429(id)
       \/ RemoteError(id)
       \/ RemoteOk(id)

SpecServer == Init /\ [][NextServer]_vars

\* the recognition session of one page whose useAI stays on, with a route
\* that has no API key
NextSession ==
  \/ ToggleListening
  \/ PageRenders
  \/ \E i \in InstanceIds :
       \/ OnResult(i)
       \/ OnError(i)
       \/ OnEnd(i)
       \/ TimerFires(i)
  \/ \E id \in SessionCallIds :
       \/ PatchStart(id)
       \/ FetchResolves(id)
       \/ FetchFails(id)

InitSession == Init /\ ~apiKey /\ ~wasApiUnavailable

SpecSession == InitSession /\ [][NextSession]_vars

\* the same, where a timer that is due fires
SpecSessionLive ==
  SpecSession /\ \A i \in InstanceIds : WF_vars(TimerFires(i))

\* the page's classifications, which may overlap, and a route that has no
\* API key and need not answer; a fetch that stays pending fails, when the
\* timer of 5000 ms aborts it
SpecSettles ==
  /\ InitSession
  /\ [][\/ /\ \E text \in {T_submit, T_hello, T_bob} :
                 processVoiceInput(text, useAI, SessionCallIds)
            /\ sev' = NoSessionEvent
            /\ UNCHANGED <<useAI, apiStatus, wasApiUnavailable, useAIOffBy, listening,
                           error>>
            /\ ClientUnchanged
         \/ \E id \in SessionCallIds :
              \/ PatchStart(id)
              \/ FetchResolves(id)
              \/ FetchFails(id)]_vars
  /\ \A id \in SessionCallIds : WF_vars(FetchFails(id))

\* the page's form
NextForm ==
  \/ \E understanding \in FormUnderstandings : HandleVoiceInput(understanding)
  \/ \E field \in TypedFields, value \in FormValues : InputChange(field, value)
  \/ FocusTimerFires
  \/ NavigationTimerFires

SpecForm == InitSession /\ [][NextForm]_vars

\* the route under POST requests that come one after the other
SpecClean ==
  Init /\ [][\/ Tick
             \/ \E id \in CallIds :
                  \/ PostCleans(id)
                  \/ Remote429(id)
                  \/ RemoteError(id)
                  \/ RemoteOk(id)]_vars

----------------------------------------------------------------------------
(* Properties of the rate limiter and of the route (SpecServer, Spec) *)

\* the step issues the remote fetch for the request in slot id
RemoteIssued(id) == calls[id].spc # "remote" /\ calls'[id].spc = "remote"

\* the step is a handler's run from its entry to its return, without a
\* remote fetch
RepliedAtEntry == out'.ev = "reply" /\ out'.c.outcome = "none"

\* the step is a handler's run from its entry on
Entered == RepliedAtEntry \/ \E id \in CallIds : RemoteIssued(id)

\* the step is a handler's run from the end of its remote fetch, which ended
\* with outcome o, to its return
RemoteEnds(o) == out'.ev = "reply" /\ out'.c.outcome = o

\* the controller is in a cooldown that has not expired
InWindow ==
  /\ rateLimitState.inCooldown
  /\ now - rateLimitState.lastRequestTime <= rateLimitState.backoffMs

\* C1: in every reachable state, under any interleaving of the requests'
\* isRateLimited, handleRateLimit and handleSuccessfulRequest, backoffMs lies
\* in [1000, 30000].
C1_BackoffInRange ==
  rateLimitState.backoffMs >= 1000 /\ rateLimitState.backoffMs <= 30000

\* the cap is reached, after four consecutive 429 answers
C1_Witness ==
  rateLimitState.backoffMs = 30000 /\ rateLimitState.consecutiveErrors = 4

\* C2: handleRateLimit leaves the controller in a cooldown whose window has
\* just begun, so isRateLimited() is true right after it; a call of
\* isRateLimited() during a cooldown returns true and changes nothing while
\* now - lastRequestTime <= backoffMs, and returns false and clears inCooldown
\* (and nothing else) once now - lastRequestTime > backoffMs.
C2_CooldownWindow ==
  [][/\ RemoteEnds("429") =>
          /\ rateLimitState'.inCooldown
          /\ now' - rateLimitState'.lastRequestTime <= rateLimitState'.backoffMs
     /\ ( /\ rateLimitState.inCooldown
          /\ \/ RepliedAtEntry /\ out'.c.limited # "unset"
             \/ \E id \in CallIds : RemoteIssued(id) ) =>
          IF now - rateLimitState.lastRequestTime <= rateLimitState.backoffMs
          THEN /\ RepliedAtEntry /\ out'.c.limited = "yes"
               /\ rateLimitState' = rateLimitState
          ELSE /\ \E id \in CallIds :
                    RemoteIssued(id) /\ calls'[id].limited = "no"
               /\ rateLimitState' = [rateLimitState EXCEPT !.inCooldown = FALSE]
    ]_vars

\* a request arrived one millisecond after the window of a 429, cleared
\* inCooldown and went remote
C2_Witness ==
  \E id \in CallIds :
    /\ calls[id].limited = "no" /\ calls[id].spc = "remote"
    /\ ~rateLimitState.inCooldown
    /\ rateLimitState.consecutiveErrors > 0
    /\ now = rateLimitState.lastRequestTime + rateLimitState.backoffMs + 1

\* resp is the answer to request c when the remote fetch is not used
FallbackAnswer(c, resp) ==
  IF c.kind = "probe"
  THEN resp = PostBody(basicTextCleaningName(c.text), FALSE)
  ELSE IF submitPattern(c.text)
       THEN resp.status = 200 /\ resp.submit /\ ~resp.fromAI
       ELSE resp = processWithRegex(c.text)

\* C3: the remote fetch is issued for a request only if the API key is
\* configured, the utterance was processed with useAI on, and isRateLimited()
\* returned false for the request; a request that enters the route while the
\* controller is in an unexpired cooldown issues no remote fetch and is
\* answered by the fallback.
C3_RemoteOnlyWhenEnabled ==
  [][/\ \A id \in CallIds :
          RemoteIssued(id) =>
            /\ apiKey
            /\ (calls'[id].kind = "utterance" => calls'[id].ai)
            /\ calls'[id].limited = "no"
            /\ ~InWindow
     /\ (Entered /\ InWindow) =>
          /\ RepliedAtEntry
          /\ \A id \in CallIds : ~RemoteIssued(id)
          /\ ~out'.c.resp.fromAI
          /\ FallbackAnswer(out'.c, out'.c.resp)
    ]_vars

\* an utterance with fields was refused by the gate during a cooldown and
\* answered by processWithRegex
C3_Witness ==
  /\ out.ev = "reply"
  /\ out.c.kind = "utterance" /\ out.c.text = T_bob /\ out.c.ai
  /\ out.c.limited = "yes" /\ out.c.outcome = "none"
  /\ out.c.resp = processWithRegex(T_bob)
  /\ InWindow

\* C4: the third consecutive 429 leaves the controller in a cooldown whose
\* window has not expired (isRateLimited() is true right after it), and an
\* analysis request that enters the route after it, inside the backoff
\* window, is answered without a remote fetch, with fromAI false: by
\* processWithRegex, or by the submit shortcut when it holds a submit word.
C4_ThirdRateLimit ==
  [][/\ (RemoteEnds("429") /\ rateLimitState'.consecutiveErrors = 3) =>
          /\ rateLimitState'.inCooldown
          /\ ~(now' - rateLimitState'.lastRequestTime > rateLimitState'.backoffMs)
     /\ ( /\ rateLimitState.consecutiveErrors = 3
          /\ now - rateLimitState.lastRequestTime <= rateLimitState.backoffMs
          /\ \/ RepliedAtEntry /\ out'.c.kind = "utterance"
             \/ \E id \in CallIds :
                  RemoteIssued(id) /\ calls'[id].kind = "utterance" ) =>
          /\ RepliedAtEntry
          /\ \A id \in CallIds : ~RemoteIssued(id)
          /\ ~out'.c.resp.fromAI
          /\ FallbackAnswer(out'.c, out'.c.resp)
          /\ rateLimitState' = rateLimitState
    ]_vars

\* after the third 429 a request was refused by the gate and answered by
\* processWithRegex
C4_Witness ==
  /\ rateLimitState.consecutiveErrors = 3
  /\ out.ev = "reply"
  /\ out.c.kind = "utterance" /\ out.c.limited = "yes"
  /\ out.c.outcome = "none"
  /\ out.c.resp = processWithRegex(T_hello)

\* C5: when the remote fetch of a PATCH or POST request ends with a status
\* that is neither a success nor 429, or throws (transport error, timeout),
\* rateLimitState is left as it was, field by field, and the request is
\* answered by the fallback.
C5_ErrorLeavesState ==
  [][(RemoteEnds("status") \/ RemoteEnds("throw")) =>
       /\ rateLimitState'.lastRequestTime = rateLimitState.lastRequestTime
       /\ rateLimitState'.consecutiveErrors = rateLimitState.consecutiveErrors
       /\ rateLimitState'.backoffMs = rateLimitState.backoffMs
       /\ rateLimitState'.inCooldown = rateLimitState.inCooldown
       /\ ~out'.c.resp.fromAI
       /\ FallbackAnswer(out'.c, out'.c.resp)
    ]_vars

\* a probe's fetch threw while the controller was in the cooldown of a 429
\* that had raised the backoff
C5_Witness ==
  /\ out.ev = "reply"
  /\ out.c.kind = "probe" /\ out.c.outcome = "throw"
  /\ rateLimitState.consecutiveErrors = 1
  /\ rateLimitState.backoffMs = 2900
  /\ rateLimitState.inCooldown

----------------------------------------------------------------------------
(* Properties of processVoiceInput (Spec) *)

\* processVoiceInput has just returned
Returned == out.ev = "return"

\* the only call of onVoiceInput had the given intent and no field
DeliveredIntent(intent) ==
  out.delivered = <<[intent |-> intent, detectedFields |-> <<>>,
                     originalText |-> out.c.text]>>

\* C6: for the utterance "submit", whatever useAI, the API key, the rate
\* limiter's state and the outcome of the request, processVoiceInput delivers
\* { intent: submit, detectedFields: [] }.
C6_SubmitAlways ==
  (Returned /\ out.c.text = T_submit) => DeliveredIntent("submit")

\* "submit" was sent with useAI on and answered by the route during a cooldown
C6_Witness ==
  /\ Returned /\ out.c.text = T_submit
  /\ out.c.ai /\ out.response = "ok"
  /\ rateLimitState.inCooldown
  /\ out.delivered # <<>>

\* C7: with useAI off, every utterance that holds submit, send, done, finish
\* or complete as a whole word is classified locally with intent submit.
C7_LocalSubmitWords ==
  (Returned /\ ~out.c.ai /\ submitPattern(out.c.text)) =>
    DeliveredIntent("submit")

\* the utterance holds clear or reset as a whole word, and no submit word
ClearUtterance(text) ==
  /\ \E i \in 1..Len(text) : Lower(text[i]) \in {"clear", "reset"}
  /\ ~\E i \in 1..Len(text) :
        Lower(text[i]) \in {"submit", "send", "done", "finish", "complete"}

\* the caller read an ok response that reports submit or some field
ResponseOverrides ==
  /\ out.c.ai /\ out.response = "ok"
  /\ (out.c.resp.submit \/ DOMAIN out.c.resp.fields # {})

\* C8, as stated: an utterance with clear or reset and no submit word is
\* classified with intent clear, also when the response reports fields.
C8_ClearAlways ==
  (Returned /\ ClearUtterance(out.c.text)) => DeliveredIntent("clear")

\* C8, amended: an utterance with clear or reset and no submit word is
\* classified with intent clear when useAI is off, when the client's request
\* fails or times out, and when the response (from the backend or from
\* processWithRegex, in cooldown or not) reports neither submit nor a field;
\* a response that reports submit or a field is delivered instead, as submit
\* or provide_info.
C8_ClearUnlessOverridden ==
  (Returned /\ ClearUtterance(out.c.text)) =>
    IF ResponseOverrides
    THEN /\ Len(out.delivered) = 1
         /\ out.delivered[1].intent =
              (IF out.c.resp.submit THEN "submit" ELSE "provide_info")
    ELSE DeliveredIntent("clear")

\* "clear" was refused by the gate during a cooldown, answered by
\* processWithRegex without a field, and delivered as clear
C8_Witness ==
  /\ Returned /\ out.c.text = T_clear
  /\ out.c.ai /\ out.response = "ok"
  /\ out.c.limited = "yes"
  /\ DeliveredIntent("clear")

\* the remote attempt was skipped on the client (useAI off), or the client's
\* request timed out or failed
ClientSkipped == ~out.c.ai \/ out.response = "failed"

BobAndEmail == <<"Bob", " ", "and", " ", "my", " ", "email", " ", "is", " ",
                 "bob", "@", "x">>
BobEmail == <<"bob", "@", "x", ".", "com">>

Intents == {"provide_info", "submit", "clear", "unknown"}

\* u is a complete Understanding of text
CompleteUnderstanding(u, text) ==
  /\ DOMAIN u = {"intent", "detectedFields", "originalText"}
  /\ u.intent \in Intents
  /\ u.originalText = text
  /\ \A k \in 1..Len(u.detectedFields) :
       /\ DOMAIN u.detectedFields[k] = {"field", "value", "confidence"}
       /\ u.detectedFields[k].field \in FieldSet

\* C10: for every utterance handed to processVoiceInput, onVoiceInput has
\* been called exactly once when processVoiceInput returns, with a complete
\* Understanding of the utterance, on every path.
C10_ExactlyOnce ==
  Returned =>
    /\ Len(out.delivered) = 1
    /\ CompleteUnderstanding(out.delivered[1], out.c.text)

\* the backend's answer for the example was delivered as provide_info
C10_Witness ==
  /\ Returned /\ out.c.text = T_bob
  /\ out.c.outcome = "ok" /\ out.c.resp.fromAI
  /\ out.response = "ok"
  /\ Len(out.delivered) = 1
  /\ out.delivered[1].intent = "provide_info"

----------------------------------------------------------------------------
(* Properties of the recognition session (SpecSession, SpecSessionLive) *)

\* the step is the end of the fetch of the processVoiceInput of slot id, the
\* calls of onVoiceInput that follow it, and its return
Settles(id) ==
  /\ \E k \in DOMAIN pending : pending[k].id = id
  /\ ~\E k \in DOMAIN pending' : pending'[k].id = id

\* the session is stopped and the last change of listening was an explicit
\* stop (toggleListening clears the error; every other handler that sets
\* listening to false sets an error), or the session was never started
ExplicitlyStopped == ~listening /\ error = ""

\* the step is the callback of a restart timer that calls start()
TimerCallsStart ==
  sev'.ev = "timer" /\ sev'.arg \in {"started", "threw"}

\* C11: the Understandings of utterances whose remote calls overlap are
\* delivered to onVoiceInput in the order of the utterances: a call settles
\* only when it is the oldest that is pending.
C11_DeliveryOrder ==
  [][\A id \in SessionCallIds :
       Settles(id) => pending[1].id = id]_vars

\* C12: when the user has stopped the session while the remote call of an
\* utterance was in flight, and the session is still stopped when the call
\* settles, onVoiceInput is not invoked for it.
C12_StaleResultDropped ==
  [][\A id \in SessionCallIds :
       ( /\ Settles(id)
         /\ \E k \in DOMAIN pending : pending[k].id = id /\ pending[k].stopped
         /\ ExplicitlyStopped ) =>
         out'.delivered = <<>>]_vars

\* C13: an explicit stop leaves no device running, and while the session is
\* stopped by an explicit stop no start() is invoked on any instance, also
\* when a restart timer is pending and when the page rendered while
\* listening.
C13_StopStaysStopped ==
  [][/\ (sev'.ev = "toggle" /\ sev'.arg = "stop") =>
          \A i \in InstanceIds : instances'[i].dev # "running"
     /\ ExplicitlyStopped => ~TimerCallsStart]_vars

C15_RestartFailureStops ==
  [][(sev'.ev = "timer" /\ sev'.arg = "threw") =>
       (~listening' /\ error' # "")]_vars

\* the final results of an event that are not empty after normalization, in
\* their order, normalized
RECURSIVE NormalizedFinals(_)
NormalizedFinals(results) ==
  IF results = <<>> THEN <<>>
  ELSE (IF /\ Head(results).isFinal
           /\ cleanedTranscript(Head(results).transcript) # <<>>
        THEN <<cleanedTranscript(Head(results).transcript)>>
        ELSE <<>>)
       \o NormalizedFinals(Tail(results))

\* C16: onresult hands every final result of the event that is not empty
\* after normalization to processVoiceInput, once each, also when the event
\* carries several new results.
C16_EveryFinalHanded ==
  sev.ev = "result" => sev.handed = NormalizedFinals(sev.event)

\* C17: toggleListening while processing is true changes nothing: listening,
\* the error and every device are as before.
C17_ToggleIgnoredWhileProcessing ==
  [][(sev'.ev = "toggle" /\ processing) =>
       /\ sev'.arg = "ignored"
       /\ listening' = listening
       /\ error' = error
       /\ instances' = instances
       /\ ref' = ref]_vars

\* the button was pressed while an utterance was being classified and the
\* device was running
C17_Witness ==
  /\ sev.ev = "toggle" /\ sev.arg = "ignored"
  /\ processing /\ listening
  /\ pending # <<>>
  /\ instances[ref].dev = "running"

\* C18: processing is true in every state in which the classification of
\* some utterance awaits its fetch.
C18_ProcessingWhilePending ==
  (\E id \in SessionCallIds :
     calls[id].kind = "utterance" /\ calls[id].cpc = "fetching") =>
    processing

\* C19: a not-allowed error sets listening to false and shows the error, and
\* while that error is shown no start() is invoked by a restart timer, also
\* when onend follows the error.
C19_DeniedIsTerminal ==
  [][/\ (sev'.ev = "error" /\ sev'.arg = "not-allowed") =>
          (~listening' /\ error' = "Microphone access denied")
     /\ (error = "Microphone access denied" /\ ~listening) =>
          ~TimerCallsStart]_vars

----------------------------------------------------------------------------
(* Properties of the route's answers (SpecServer, Spec) *)

\* the route has just answered a well-formed analysis request
AnalysisAnswered ==
  out.ev = "reply" /\ out.c.kind = "utterance" /\ out.c.text # <<>>

\* C21: a well-formed analysis request (non-empty text) is answered with
\* status 200 whatever the remote fetch did: after a 429, another non-success
\* status or a throw the answer is the body of processWithRegex, and so it is
\* after a success whose body is empty or cannot be parsed; no remote failure
\* reaches the caller as an error status.
C21_FailuresFallBack ==
  AnalysisAnswered =>
    /\ out.c.resp.status = 200
    /\ out.c.outcome \in {"429", "status", "throw"} =>
         out.c.resp = processWithRegex(out.c.text)
    /\ (out.c.outcome = "ok" /\ ~out.c.resp.fromAI) =>
         out.c.resp = processWithRegex(out.c.text)

\* a successful fetch whose body was of no use was answered by
\* processWithRegex, the controller being in the cooldown of an earlier 429
C21_Witness ==
  /\ AnalysisAnswered
  /\ out.c.outcome = "ok" /\ ~out.c.resp.fromAI
  /\ out.c.resp = processWithRegex(T_hello)
  /\ out.c.resp.status = 200
  /\ rateLimitState.inCooldown

\* the body resp of the route breaks the schema of the field entries
BreaksSchema(resp) ==
  \E f \in DOMAIN resp.fields : resp.fields[f].value = Undefined

\* C22: when the body of the backend's answer breaks the schema (it is not
\* JSON, or a field entry of it is no { value: string, confidence: number }),
\* the utterance is resolved by the fallback (processWithRegex in the route,
\* the local check on the client), and no DetectedField without a string
\* value is handed to onVoiceInput.
C22_SchemaViolationFallsBack ==
  /\ (AnalysisAnswered /\ out.c.outcome = "ok" /\ BreaksSchema(out.c.resp)) =>
       ~out.c.resp.fromAI
  /\ Returned =>
       \A k \in 1..Len(out.delivered) :
         \A j \in 1..Len(out.delivered[k].detectedFields) :
           out.delivered[k].detectedFields[j].value # Undefined

----------------------------------------------------------------------------
(* Properties of the rate limiter's functions (SpecServer) *)

\* C23: handleSuccessfulRequest after handleRateLimit leaves
\* consecutiveErrors = 0 and backoffMs = 1000, whatever the number of failures
\* before: from every reachable state of the controller the two calls in a
\* row give that, and a successful fetch that finds consecutiveErrors > 0
\* (some handleRateLimit came before it, with or without other requests in
\* between) leaves it.
C23_SuccessResets ==
  [][/\ \A factor \in JitterFactors :
          LET st == handleSuccessfulRequest(
                      handleRateLimit(rateLimitState, now, factor), now)
          IN st.consecutiveErrors = 0 /\ st.backoffMs = 1000
     /\ (RemoteEnds("ok") /\ rateLimitState.consecutiveErrors > 0) =>
          /\ rateLimitState'.consecutiveErrors = 0
          /\ rateLimitState'.backoffMs = 1000
    ]_vars

\* a fetch succeeded after 429 answers to other requests: the counters are
\* reset while the cooldown of the last 429 is still set
C23_Witness ==
  /\ out.ev = "reply" /\ out.c.outcome = "ok"
  /\ rateLimitState.inCooldown
  /\ rateLimitState.consecutiveErrors = 0
  /\ rateLimitState.backoffMs = 1000
  /\ rateLimitState.lastRequestTime = now

\* the step changes rateLimitState as one call of handleRateLimit does
RateLimitRecorded ==
  \E factor \in JitterFactors :
    rateLimitState' = handleRateLimit(rateLimitState, now, factor)

\* the step changes rateLimitState as one call of handleSuccessfulRequest does
SuccessRecorded ==
  rateLimitState' = handleSuccessfulRequest(rateLimitState, now)

\* the step is a handler's run from the end of its remote fetch
RemoteEnded == \E o \in {"429", "status", "throw", "ok"} : RemoteEnds(o)

\* C24, as stated: after every remote attempt the handler calls exactly one
\* of handleRateLimit and handleSuccessfulRequest.
C24_ExactlyOneHandler ==
  [][RemoteEnded => (RateLimitRecorded # SuccessRecorded)]_vars

\* C24, amended: after a remote attempt the handler calls handleRateLimit
\* alone when the answer is 429, handleSuccessfulRequest alone when the
\* answer is a success, and neither of them when the answer is another
\* non-success status or the fetch throws: rateLimitState is then left as it
\* was.  It never calls both.
C24_HandlerPerOutcome ==
  [][/\ RemoteEnds("429") => (RateLimitRecorded /\ ~SuccessRecorded)
     /\ RemoteEnds("ok") => (SuccessRecorded /\ ~RateLimitRecorded)
     /\ (RemoteEnds("status") \/ RemoteEnds("throw")) =>
          /\ UNCHANGED rateLimitState
          /\ ~RateLimitRecorded
    ]_vars

\* an analysis request's fetch was answered with an error status that is no
\* 429, after two 429 answers and some time: the controller was left as the
\* second 429 had left it
C24_Witness ==
  /\ out.ev = "reply"
  /\ out.c.kind = "utterance" /\ out.c.outcome = "status"
  /\ rateLimitState.consecutiveErrors = 2
  /\ rateLimitState.inCooldown
  /\ rateLimitState.lastRequestTime < now

----------------------------------------------------------------------------
(* Properties of the submit shortcut (Spec) *)

\* the spellings of submit, send, done, finish and complete among the tokens
SubmitSpellings ==
  {"submit", "Submit", "send", "SEND", "done", "finish", "complete"}

\* text holds one of the five words as a whole word, in some case
HasSubmitWord(text) == \E i \in 1..Len(text) : text[i] \in SubmitSpellings

\* resp is the answer of the submit shortcut of PATCH
ShortcutAnswer(resp) == resp = Body(TRUE, 95, <<>>, FALSE)

\* C25: the submit test of the route (the shortcut of PATCH and
\* processWithRegex) is true of a text exactly when the text holds submit,
\* send, done, finish or complete as a whole word, in any case: "SEND it" is
\* answered by the shortcut, while "resubmitting" and "submitted" are not and
\* get no submit from processWithRegex.
C25_WholeWordSubmit ==
  /\ \A text \in Utterances \cup {T_Submit} :
       submitPattern(text) <=> HasSubmitWord(text)
  /\ AnalysisAnswered =>
       IF HasSubmitWord(out.c.text)
       THEN ShortcutAnswer(out.c.resp) /\ out.c.outcome = "none"
       ELSE /\ ~ShortcutAnswer(out.c.resp)
            /\ ~out.c.resp.fromAI => ~out.c.resp.submit

\* "resubmitting" was answered by processWithRegex without a submit, and
\* delivered as unknown
C25_Witness ==
  /\ Returned /\ out.c.text = T_resubmitting
  /\ out.response = "ok"
  /\ out.c.resp = processWithRegex(T_resubmitting)
  /\ ~out.c.resp.submit
  /\ DeliveredIntent("unknown")

\* C27: one call of handleRateLimit from backoffMs = B leaves backoffMs
\* between B and 3B (3B excluded) or at the cap 30000, never above the cap
\* and never below B; from the floor 1000 it leaves a value in [1000, 3000);
\* and it raises consecutiveErrors by exactly one.
C27_OneFailureStep ==
  [][RemoteEnds("429") =>
       LET B == rateLimitState.backoffMs
           B1 == rateLimitState'.backoffMs
       IN /\ B1 >= B
          /\ B1 <= 30000
          /\ B1 < 3 * B \/ B1 = 30000
          /\ 3 * B <= 30000 => B1 < 3 * B
          /\ B = 1000 => (B1 >= 1000 /\ B1 < 3000)
          /\ rateLimitState'.consecutiveErrors =
               rateLimitState.consecutiveErrors + 1
    ]_vars

\* the second 429 in a row, both with a jitter near its upper end
C27_Witness ==
  /\ out.ev = "reply" /\ out.c.outcome = "429"
  /\ rateLimitState.consecutiveErrors = 2
  /\ rateLimitState.backoffMs = 8410

\* C28: consecutiveErrors and backoffMs go down only in a step that ends a
\* successful remote fetch (handleSuccessfulRequest).  A handler's run from
\* its entry on, with its call of isRateLimited(), leaves consecutiveErrors,
\* backoffMs and lastRequestTime as they were, also when it finds the
\* cooldown elapsed and clears inCooldown; so a 429 that follows an elapsed
\* cooldown counts on from the earlier failures.
C28_ResetOnlyBySuccess ==
  [][/\ ( \/ rateLimitState'.consecutiveErrors < rateLimitState.consecutiveErrors
          \/ rateLimitState'.backoffMs < rateLimitState.backoffMs ) =>
          RemoteEnds("ok")
     /\ Entered =>
          /\ rateLimitState'.consecutiveErrors = rateLimitState.consecutiveErrors
          /\ rateLimitState'.backoffMs = rateLimitState.backoffMs
          /\ rateLimitState'.lastRequestTime = rateLimitState.lastRequestTime
     /\ (RemoteEnds("429") /\ ~rateLimitState.inCooldown) =>
          /\ rateLimitState'.consecutiveErrors =
               rateLimitState.consecutiveErrors + 1
          /\ rateLimitState'.backoffMs >= rateLimitState.backoffMs
    ]_vars

\* a first cooldown elapsed, a request then passed the gate and was answered
\* 429: the second failure in a row
C28_Witness ==
  /\ out.ev = "reply" /\ out.c.outcome = "429" /\ out.c.limited = "no"
  /\ now = StartTime + BaseBackoff + 1
  /\ rateLimitState.lastRequestTime = now
  /\ rateLimitState.consecutiveErrors = 2
  /\ rateLimitState.inCooldown

\* C29: an analysis request whose text holds a submit word is answered by
\* PATCH in the step in which it enters, with submit detected (confidence
\* 0.95, fromAI false): no remote fetch is issued for it, isRateLimited() is
\* not called, and every field of rateLimitState is left as it was, in a
\* cooldown, an elapsed cooldown, or none.
C29_SubmitShortcut ==
  [][/\ \A id \in CallIds :
          RemoteIssued(id) =>
            ~(calls'[id].kind = "utterance" /\ HasSubmitWord(calls'[id].text))
     /\ ( /\ out'.ev = "reply" /\ out'.c.kind = "utterance"
          /\ HasSubmitWord(out'.c.text) ) =>
          /\ ShortcutAnswer(out'.c.resp)
          /\ out'.c.outcome = "none"
          /\ out'.c.limited = "unset"
          /\ rateLimitState'.lastRequestTime = rateLimitState.lastRequestTime
          /\ rateLimitState'.consecutiveErrors = rateLimitState.consecutiveErrors
          /\ rateLimitState'.backoffMs = rateLimitState.backoffMs
          /\ rateLimitState'.inCooldown = rateLimitState.inCooldown
    ]_vars

\* "submit" was answered after the window of a cooldown had passed: the
\* cooldown is still set, as no isRateLimited() was called
C29_Witness ==
  /\ out.ev = "reply" /\ out.c.kind = "utterance" /\ out.c.text = T_submit
  /\ ShortcutAnswer(out.c.resp) /\ out.c.limited = "unset"
  /\ rateLimitState.inCooldown
  /\ now - rateLimitState.lastRequestTime > rateLimitState.backoffMs

----------------------------------------------------------------------------
(* Properties of the input validation of processVoiceInput (Spec) *)

\* C30: processVoiceInput called with an empty or whitespace-only text does
\* nothing: onVoiceInput is not called, no request is sent (no request ever
\* carries a blank text), and processing and rateLimitHit stay as they were.
C30_BlankIsNoOp ==
  [][/\ \A id \in CallIds :
          calls'[id].kind = "utterance" => Trim(calls'[id].text) # <<>>
     /\ \A text \in BlankTexts :
          (out'.ev \in {"ignored", "return"} /\ out'.c.text = text) =>
            /\ out'.ev = "ignored"
            /\ out'.delivered = <<>>
            /\ calls' = calls
            /\ pending' = pending
            /\ processing' = processing
            /\ rateLimitHit' = rateLimitHit
    ]_vars

\* a whitespace-only text came after an utterance that had raised the
\* rate-limit notice: the notice is still up
C30_Witness ==
  /\ out.ev = "ignored" /\ out.c.text = <<" ">>
  /\ out.c.ai
  /\ rateLimitHit /\ ~processing

----------------------------------------------------------------------------
(* Properties of the page's form (SpecForm) *)

\* rec is a flat record of four trimmed texts
TrimmedRecord(rec) ==
  /\ DOMAIN rec = FieldSet
  /\ \A f \in FieldSet : Trim(rec[f]) = rec[f] /\ rec[f] # Undefined

\* C26: a voice submit writes under 'formData' the flat record
\* { name, email, phone, address } of the trimmed values of the inputs, and
\* nothing else is ever written there; a navigation timer is set only in a
\* step that has written the record, so the page goes to the confirmation
\* only after the write; when the four values are empty (once trimmed), the
\* submit writes nothing and sets no timer.
C26_SubmitPersistsTrimmed ==
  [][LET values == [f \in FieldSet |-> Trim(form.dom[f])] IN
     /\ form'.stored # <<>> => TrimmedRecord(form'.stored[1])
     /\ form'.stored # form.stored =>
          form'.fev = "submit" /\ form'.stored = <<values>>
     /\ form'.navs > form.navs =>
          form'.fev = "submit" /\ form'.stored = <<values>>
     /\ form'.route # form.route =>
          /\ form'.route = "confirmation"
          /\ form.navs > 0 /\ form.stored # <<>>
     /\ (form'.fev = "submit" /\ \A f \in FieldSet : values[f] = <<>>) =>
          /\ form'.stored = form.stored
          /\ form'.navs = form.navs
          /\ form'.route = form.route
    ]_vars

\* " Bob " was typed as the name and submitted by voice: "Bob" is stored
\* and the page is on the confirmation
C26_Witness ==
  /\ form.route = "confirmation"
  /\ form.dom["name"] = <<" ", "Bob", " ">>
  /\ form.stored = <<[f \in FieldSet |->
                        IF f = "name" THEN <<"Bob">> ELSE <<>>]>>

----------------------------------------------------------------------------
(* Properties of basicTextCleaning (SpecClean) *)

\* the route has just answered a POST request by basicTextCleaning
Cleaned == out.ev = "reply" /\ out.c.kind = "probe" /\ ~out.c.resp.fromAI

\* sanitizedText of the answer
Sanitized == out.c.resp.fields["name"].value

T_janeDoe == <<"Jane", " ", "Doe">>

\* C32: basicTextCleaning for the name leaves the name alone of
\* "hi, i'm called Jane Doe" and of "i'm called Jane Doe".
C32_NameAlone ==
  ( /\ Cleaned /\ out.c.field = "name"
    /\ out.c.text \in {T_hiCalled, SubSeqFrom(T_hiCalled, 4)} ) =>
    Sanitized = T_janeDoe

\* no pattern and no prefix of the field applies to the text: it has no "@"
\* (email), no digit (phone), and starts with none of the field's prefixes
NothingApplies(text, field) ==
  /\ \A n \in 1..2 :
       \A k \in 1..Len(FieldPrefixes(field)[n]) :
         ~LitAt(Trim(text), 1, FieldPrefixes(field)[n][k])
  /\ field = "email" => \A k \in 1..Len(text) : text[k] # "@"
  /\ field = "phone" => \A k \in 1..Len(text) : DigitLen(text[k]) = 0

\* C33 (as stated): when no pattern and no prefix applies, each of the four
\* cases of basicTextCleaning returns the trimmed text unmodified.
C33_UnmodifiedWhenNothingApplies ==
  (Cleaned /\ NothingApplies(out.c.text, out.c.field)) =>
    Sanitized = Trim(out.c.text)

\* C33 (amended): when no pattern and no prefix applies, the name, email and
\* address cases return the trimmed text unmodified, and the phone case
\* returns the trimmed text without the characters that are not a digit,
\* whitespace or one of -+().
C33_UnmodifiedButPhone ==
  (Cleaned /\ NothingApplies(out.c.text, out.c.field)) =>
    /\ out.c.field # "phone" => Sanitized = Trim(out.c.text)
    /\ out.c.field = "phone" =>
         Sanitized = SelectSeq(Trim(out.c.text),
                               LAMBDA tok : tok \in {" ", "-", "+", "(", ")", "."})

C33_Witness ==
  /\ Cleaned /\ NothingApplies(out.c.text, out.c.field)
  /\ out.c.field = "phone" /\ out.c.text = <<" ", "hello", " ">>
  /\ Sanitized = <<>>

\* C34: the record a voice submit writes is formData at that moment with
\* the values trimmed.
C34_StoredIsFormData ==
  [][(form'.fev = "submit" /\ form'.navs > form.navs) =>
       form'.stored = <<[f \in FieldSet |-> Trim(form.data[f])]>>]_vars

----------------------------------------------------------------------------
(* The cooldown under concurrent requests (SpecServer) *)

\* C35: a success recorded during a cooldown neither ends the cooldown nor
\* brings forward CooldownEnd, the time up to which isRateLimited() returns
\* true.
C35_SuccessKeepsCooldown ==
  [][(RemoteEnds("ok") /\ rateLimitState.inCooldown) =>
       /\ rateLimitState'.inCooldown
       /\ CooldownEnd' >= CooldownEnd]_vars

\* C36: inCooldown implies consecutiveErrors >= 1.
C36_CooldownHasErrors ==
  rateLimitState.inCooldown => rateLimitState.consecutiveErrors >= 1

----------------------------------------------------------------------------
(* The instances of the recognition session (SpecSession) *)

\* C37: at most one instance is active: no two instances have a running
\* device (started, with neither stop() called nor an error dispatched).
C37_OneActiveInstance ==
  Cardinality({i \in InstanceIds : instances[i].dev = "running"}) <= 1

----------------------------------------------------------------------------
(* The end of every classification (SpecSettles) *)

\* the processVoiceInput of slot id awaits its fetch
InFlight(id) == calls[id].kind = "utterance" /\ calls[id].cpc = "fetching"

\* C38: every classification in flight ends, also when the route never
\* answers; when it ends, exactly one Understanding of its utterance has been
\* delivered; and whenever no classification is in flight, processing is
\* false, so that processing never stays true forever.
C38_EveryUtteranceAnswered ==
  /\ \A id \in SessionCallIds : InFlight(id) ~> ~InFlight(id)
  /\ [][\A id \in SessionCallIds :
         (InFlight(id) /\ ~InFlight(id)') =>
           /\ out'.ev = "return" /\ out'.c.text = calls[id].text
           /\ Len(out'.delivered) = 1
           /\ out'.delivered[1].originalText = calls[id].text]_vars
  /\ []((\A id \in SessionCallIds : ~InFlight(id)) => ~processing)
  /\ processing ~> ~processing

\* the fetch of an utterance was given up before the route had answered, the
\* local intent was delivered, and nothing is in flight any more
C38_Witness ==
  /\ out.ev = "return" /\ out.response = "failed"
  /\ out.c.spc # "replied"
  /\ Len(out.delivered) = 1
  /\ \A id \in SessionCallIds : ~InFlight(id)
  /\ ~processing

----------------------------------------------------------------------------
(* The page's notices (Spec) *)

\* C39: rateLimitHit is set for an utterance only if the route was in its
\* cooldown when the request came, or got 429 from the backend for it.
C39_NoticeOnlyWhenLimited ==
  [][(rateLimitHit' /\ ~rateLimitHit) =>
       /\ out'.ev = "return"
       /\ out'.c.limited = "yes" \/ out'.c.outcome = "429"]_vars

\* C40: when apiStatus returns to 'available', useAI is switched on by the
\* page only if the effect on apiStatus had switched it off; when the user
\* had switched it off, it stays off.
C40_ManualOffSurvives ==
  [][(apiStatus # "available" /\ apiStatus' = "available"
        /\ ~useAI /\ useAI') => useAIOffBy = "outage"]_vars

=============================================================================
